---- MODULE Spec2Model ----
(***************************************************************************)
(* The in-memory write buffer of delorean_write_buffer: Db::write_lines,   *)
(* the WAL append, Db::restore_from_wal and the metadata queries           *)
(* (table_names, tag_column_names, column_values, table_to_arrow) of       *)
(* src/delorean_write_buffer/src/database.rs, over the dictionary, column, *)
(* table and partition layers.                                             *)
(***************************************************************************)
EXTENDS Integers, Sequences, FiniteSets, TLC

(***************************************************************************)
(* Bounds and inputs                                                       *)
(***************************************************************************)

\* Total number of write_lines calls made on the database.
MaxWrites == 2

\* Model ticks per UTC hour: the timestamps of the model are in ticks, the
\* scale that stands for the 3 600 000 000 000 nanoseconds of an hour.
TicksPerHour == 4

Writers == {"w1", "w2"}
Readers == {"r1"}

\* Option<T>: None is the empty sequence, Some(x) the one-element sequence.
None == <<>>
Some(x) == <<x>>

\* ParsedLine values: measurement, tag set, field set, timestamp.
Tag(name, v) == [name |-> name, kind |-> "Tag", v |-> v]
Field(name, kind, v) == [name |-> name, kind |-> kind, v |-> v]
Line(m, tags, fields, ts) ==
    [measurement |-> m, tags |-> tags, fields |-> fields, timestamp |-> Some(ts)]

\* cpu,region=west user=23.2 1
LineCpuWest == Line("cpu", <<Tag("region", "west")>>, <<Field("user", "F64", 23)>>, 1)
\* cpu,host=A user=10.0 2         (no region: null; host is a new tag)
LineCpuHost == Line("cpu", <<Tag("host", "A")>>, <<Field("user", "F64", 10)>>, 2)
\* disk,region=east bytes=99i 2
LineDisk == Line("disk", <<Tag("region", "east")>>, <<Field("bytes", "I64", 99)>>, 2)
\* cpu user=3i 3                  (user as an integer: conflicts with user=23.2)
LineCpuInt == Line("cpu", <<>>, <<Field("user", "I64", 3)>>, 3)
\* cpu,region=west user=21.0 <one hour later>
LineCpuLater ==
    Line("cpu", <<Tag("region", "west")>>, <<Field("user", "F64", 21)>>, TicksPerHour + 1)
\* disk,state=CA bytes=7i <one hour later>
LineDiskLater ==
    Line("disk", <<Tag("state", "CA")>>, <<Field("bytes", "I64", 7)>>, TicksPerHour + 2)

\* cpu user=5.0                   (no timestamp)
LineNoTime ==
    [measurement |-> "cpu", tags |-> <<>>, fields |-> <<Field("user", "F64", 5)>>,
     timestamp |-> None]

\* The batches of lines handed to write_lines.  No line names a column twice.
Batches ==
    { <<LineCpuWest>>,
      <<LineCpuWest, LineCpuHost>>,
      <<LineDisk>>,
      <<LineCpuInt>>,
      <<LineCpuWest, LineCpuInt>>,
      <<LineCpuHost, LineDisk>>,
      <<LineCpuLater, LineCpuWest>>,
      <<LineCpuLater, LineCpuInt>>,
      <<LineDiskLater, LineDisk>>,
      <<LineCpuWest, LineNoTime>> }

\* The timestamp ranges [start, end) given to the queries.
Range(s, e) == [start |-> s, end |-> e]
Ranges ==
    { Range(0, 1), Range(0, 2), Range(0, 3), Range(2, 3), Range(3, 4),
      Range(2, TicksPerHour + 2), Range(TicksPerHour + 1, TicksPerHour + 2),
      Range(TicksPerHour + 2, TicksPerHour + 3), Range(0, TicksPerHour + 3) }

OptRanges == {None} \cup {Some(r) : r \in Ranges}

(***************************************************************************)
(* Dictionary: string <-> u32 symbol, ids dense from 0 in insertion order  *)
(***************************************************************************)

lookup_value(dictionary, s) ==
    IF \E i \in 1..Len(dictionary) : dictionary[i] = s
    THEN Some((CHOOSE i \in 1..Len(dictionary) : dictionary[i] = s) - 1)
    ELSE None

lookup_id(dictionary, id) ==
    IF id \in 0..(Len(dictionary) - 1) THEN Some(dictionary[id + 1]) ELSE None

\* An intern that appends the string whether the dictionary has it or not.
InternAppended(dictionary, s, found) ==
    [dictionary |-> Append(dictionary, s), id |-> Len(dictionary)]

\* An intern that puts a new string at id 0 and moves the others up.
InternAtFront(dictionary, s, found) ==
    IF found # None
    THEN [dictionary |-> dictionary, id |-> found[1]]
    ELSE [dictionary |-> <<s>> \o dictionary, id |-> 0]

InternFound(dictionary, s, found) ==
    IF found # None
    THEN [dictionary |-> dictionary, id |-> found[1]]
    ELSE [dictionary |-> Append(dictionary, s), id |-> Len(dictionary)]

intern(dictionary, s) == InternFound(dictionary, s, lookup_value(dictionary, s))

(***************************************************************************)
(* Column: a typed sequence of Option values                               *)
(***************************************************************************)

\* The column variant that stores a value of a WAL value kind.
ColumnKind(kind) == IF kind = "Time" THEN "I64" ELSE kind

Nulls(n) == [i \in 1..n |-> None]

push_null(column) == [column EXCEPT !.values = Append(@, None)]

\* A column created without the nulls for the rows the table already has.
NewColumnNoBackfill(kind, row_count, v) ==
    [kind |-> ColumnKind(kind), values |-> <<Some(v)>>]

\* Column with `row_count` nulls followed by the first real value.
NewColumn(kind, row_count, v) ==
    [kind |-> ColumnKind(kind), values |-> Append(Nulls(row_count), Some(v))]

(***************************************************************************)
(* Table                                                                   *)
(***************************************************************************)

NewTable(id) == [id |-> id, columns |-> <<>>, column_id_to_index |-> <<>>]

row_count(table) ==
    IF Len(table.columns) = 0 THEN 0 ELSE Len(table.columns[1].values)

\* Steps (a) and (c) of append_row for the values from position i on; a
\* value is [id, kind, v] with id the symbol of its column name.
RECURSIVE AppendValues(_, _, _, _)
\* The values stored whatever the variant of the column under their name.
AppendValuesCoerced(table, values, i, n) ==
    IF i > Len(values) THEN [ok |-> TRUE, table |-> table]
    ELSE IF values[i].id \in DOMAIN table.column_id_to_index
    THEN AppendValues(
           [table EXCEPT !.columns[table.column_id_to_index[values[i].id] + 1].values =
                           Append(@, Some(values[i].v))],
           values, i + 1, n)
    ELSE AppendValues(
           [table EXCEPT
              !.column_id_to_index = @ @@ (values[i].id :> Len(table.columns)),
              !.columns = Append(@, NewColumn(values[i].kind, n, values[i].v))],
           values, i + 1, n)

AppendValues(table, values, i, n) ==
    IF i > Len(values) THEN [ok |-> TRUE, table |-> table]
    ELSE LET val == values[i] IN
         IF val.id \in DOMAIN table.column_id_to_index
         THEN LET idx == table.column_id_to_index[val.id] IN
              IF table.columns[idx + 1].kind # ColumnKind(val.kind)
              THEN [ok |-> FALSE, table |-> table]
              ELSE AppendValues(
                     [table EXCEPT !.columns[idx + 1].values = Append(@, Some(val.v))],
                     values, i + 1, n)
         ELSE AppendValues(
                [table EXCEPT
                   !.column_id_to_index = @ @@ (val.id :> Len(table.columns)),
                   !.columns = Append(@, NewColumn(val.kind, n, val.v))],
                values, i + 1, n)

\* Step (b) left out: the columns the row does not name stay as they are.
PadNullsSkipped(table, n) == table

\* Step (b): every column the row left out gets a null.
PadNulls(table, n) ==
    [table EXCEPT !.columns =
        [c \in 1..Len(@) |-> IF Len(@[c].values) = n THEN push_null(@[c]) ELSE @[c]]]

\* A failed row left as far as it got: no rollback.
FinishRowNoRollback(table, r, n) ==
    IF r.ok THEN [ok |-> TRUE, table |-> PadNulls(r.table, n)]
    ELSE [ok |-> FALSE, table |-> r.table]

\* The row is complete (r.ok) and the other columns are padded, or it is
\* rolled back: the table is as before.
FinishRow(table, r, n) ==
    IF r.ok THEN [ok |-> TRUE, table |-> PadNulls(r.table, n)]
    ELSE [ok |-> FALSE, table |-> table]

AppendRowAt(table, values, n) == FinishRow(table, AppendValues(table, values, 1, n), n)

\* Table::append_row: on a type mismatch the row's partial appends are
\* rolled back and the table is as before.
append_row(table, values) == AppendRowAt(table, values, row_count(table))

(***************************************************************************)
(* Partition key and WAL batch encoding                                    *)
(***************************************************************************)

\* Days since 1970-01-01 to the civil date <<year, month, day>> of the
\* proleptic Gregorian calendar, as chrono's Utc date formatting gives it.
CivilFromDays(days) ==
    LET z == days + 719468
        era == z \div 146097
        doe == z - era * 146097
        yoe == (doe - doe \div 1460 + doe \div 36524 - doe \div 146096) \div 365
        doy == doe - (365 * yoe + yoe \div 4 - yoe \div 100)
        mp == (5 * doy + 2) \div 153
        d == doy - (153 * mp + 2) \div 5 + 1
        m == IF mp < 10 THEN mp + 3 ELSE mp - 9
        y == yoe + era * 400 + (IF m <= 2 THEN 1 ELSE 0)
    IN <<y, m, d>>

\* partition_key with the calendar left out: one key per hour of the day.
partition_key_hour_only(line) ==
    <<1970, 1, 1, (line.timestamp[1] \div TicksPerHour) % 24>>

\* partition_key: the line's timestamp formatted as "%Y-%m-%dT%H" in UTC,
\* here the tuple <<year, month, day, hour>>.
partition_key(line) ==
    LET ts == line.timestamp[1]
        hours == ts \div TicksPerHour
    IN CivilFromDays(hours \div 24) \o <<hours % 24>>

\* The FieldValue records of one line: tags, then fields, then the time.
LineValues(line) ==
    line.tags \o line.fields
      \o <<[name |-> "time", kind |-> "Time", v |-> line.timestamp[1]]>>

\* A grouping that puts a later line of a table before the earlier ones.
AddToTableBatchesAtHead(table_batches, name, row) ==
    IF \E i \in 1..Len(table_batches) : table_batches[i].table = name
    THEN LET i == CHOOSE i \in 1..Len(table_batches) : table_batches[i].table = name
         IN [table_batches EXCEPT ![i].rows = <<row>> \o @]
    ELSE Append(table_batches, [table |-> name, rows |-> <<row>>])

AddToTableBatches(table_batches, name, row) ==
    IF \E i \in 1..Len(table_batches) : table_batches[i].table = name
    THEN LET i == CHOOSE i \in 1..Len(table_batches) : table_batches[i].table = name
         IN [table_batches EXCEPT ![i].rows = Append(@, row)]
    ELSE Append(table_batches, [table |-> name, rows |-> <<row>>])

AddToEntries(entries, key, name, row) ==
    IF \E i \in 1..Len(entries) : entries[i].partition_key = key
    THEN LET i == CHOOSE i \in 1..Len(entries) : entries[i].partition_key = key
         IN [entries EXCEPT ![i].table_batches = AddToTableBatches(@, name, row)]
    ELSE Append(entries, [partition_key |-> key,
                          table_batches |-> <<[table |-> name, rows |-> <<row>>]>>])

RECURSIVE SplitFrom(_, _, _)
SplitFrom(entries, lines, i) ==
    IF i > Len(lines) THEN entries
    ELSE SplitFrom(
           AddToEntries(entries, partition_key(lines[i]), lines[i].measurement,
                        LineValues(lines[i])),
           lines, i + 1)

\* The WriteBufferBatch of the lines: one entry per partition key, in it one
\* table batch per measurement, rows in line order.
split_lines_into_write_entry_partitions(lines) == SplitFrom(<<>>, lines, 1)

(***************************************************************************)
(* Partition                                                               *)
(***************************************************************************)

NewPartition(key) == [key |-> key, dictionary |-> <<>>, tables |-> <<>>]

should_write(partition, key) == partition.key = key

\* Interns the strings of a row and turns it into [id, kind, v] values; a tag
\* value becomes its symbol.
RECURSIVE InternRow(_, _, _, _)
InternTagValue(row, i, values, column_id, t) ==
    InternRow(t.dictionary, row, i + 1,
              Append(values, [id |-> column_id, kind |-> "Tag", v |-> t.id]))

InternValue(row, i, values, c) ==
    IF row[i].kind = "Tag"
    THEN InternTagValue(row, i, values, c.id, intern(c.dictionary, row[i].v))
    ELSE InternRow(c.dictionary, row, i + 1,
                   Append(values, [id |-> c.id, kind |-> row[i].kind, v |-> row[i].v]))

InternRow(dictionary, row, i, values) ==
    IF i > Len(row) THEN [dictionary |-> dictionary, values |-> values]
    ELSE InternValue(row, i, values, intern(dictionary, row[i].name))

RECURSIVE WriteRows(_, _, _, _)
\* A row appended without the dictionary the row's strings were interned
\* into: the partition keeps the dictionary it had.
RowAppendedDictionaryLost(partition, table_id, rows, i, dictionary, a) ==
    IF a.ok
    THEN WriteRows([partition EXCEPT !.tables[table_id] = a.table], table_id, rows, i + 1)
    ELSE [ok |-> FALSE, partition |-> [partition EXCEPT !.tables[table_id] = a.table]]

RowAppended(partition, table_id, rows, i, dictionary, a) ==
    IF a.ok
    THEN WriteRows([partition EXCEPT !.dictionary = dictionary, !.tables[table_id] = a.table],
                   table_id, rows, i + 1)
    ELSE [ok |-> FALSE,
          partition |-> [partition EXCEPT !.dictionary = dictionary,
                                          !.tables[table_id] = a.table]]

RowInterned(partition, table_id, rows, i, r) ==
    RowAppended(partition, table_id, rows, i, r.dictionary,
                append_row(partition.tables[table_id], r.values))

WriteRows(partition, table_id, rows, i) ==
    IF i > Len(rows) THEN [ok |-> TRUE, partition |-> partition]
    ELSE RowInterned(partition, table_id, rows, i,
                     InternRow(partition.dictionary, rows[i], 1, <<>>))

RECURSIVE WriteTableBatches(_, _, _)
TableBatchWritten(table_batches, j, w) ==
    IF w.ok THEN WriteTableBatches(w.partition, table_batches, j + 1) ELSE w

\* The table named by the batch is interned and materialized if missing,
\* then the rows are appended.
WriteTableBatch(partition, table_batches, j, t) ==
    TableBatchWritten(table_batches, j,
        WriteRows([partition EXCEPT
                     !.dictionary = t.dictionary,
                     !.tables = IF t.id \in DOMAIN @ THEN @
                                ELSE @ @@ (t.id :> NewTable(t.id))],
                  t.id, table_batches[j].rows, 1))

WriteTableBatches(partition, table_batches, j) ==
    IF j > Len(table_batches) THEN [ok |-> TRUE, partition |-> partition]
    ELSE WriteTableBatch(partition, table_batches, j,
                         intern(partition.dictionary, table_batches[j].table))

\* Partition::write_entry: applies one per-partition entry row by row; a
\* failing row ends it, the rows before it stay applied.
write_entry(partition, entry) == WriteTableBatches(partition, entry.table_batches, 1)

\* Partition::make_timestamp_predicate
make_timestamp_predicate(partition, range) ==
    IF range = None THEN [ok |-> TRUE, pred |-> None]
    ELSE LET id == lookup_value(partition.dictionary, "time") IN
         IF id = None THEN [ok |-> FALSE, pred |-> None]
         ELSE [ok |-> TRUE, pred |-> Some([time_column_id |-> id[1], range |-> range[1]])]

(***************************************************************************)
(* Table predicates                                                        *)
(***************************************************************************)

\* TimestampRange::contains_opt: start <= t < end, false for a null
contains_opt(range, ts) ==
    ts # None /\ range.start <= ts[1] /\ ts[1] < range.end

\* Table::column_i64: the values of the I64 column with that id
column_i64(table, column_id) ==
    IF /\ column_id \in DOMAIN table.column_id_to_index
       /\ table.columns[table.column_id_to_index[column_id] + 1].kind = "I64"
    THEN Some(table.columns[table.column_id_to_index[column_id] + 1].values)
    ELSE None

matches_id_predicate(table, table_symbol) ==
    table_symbol = None \/ table_symbol[1] = table.id

matches_timestamp_predicate(table, pred) ==
    IF pred = None THEN TRUE
    ELSE LET time == column_i64(table, pred[1].time_column_id) IN
         /\ time # None
         /\ \E i \in 1..Len(time[1]) : contains_opt(pred[1].range, time[1][i])

\* Whether the column (its values) has a non-null value in a row in range.
column_matches_timestamp_predicate(table, values, pred) ==
    IF pred = None THEN \E i \in 1..Len(values) : values[i] # None
    ELSE LET time == column_i64(table, pred[1].time_column_id) IN
         /\ time # None
         /\ \E i \in 1..Len(values) :
              /\ i <= Len(time[1])
              /\ values[i] # None
              /\ contains_opt(pred[1].range, time[1][i])

(***************************************************************************)
(* Read path: table_names, the visitors, table_to_arrow                    *)
(***************************************************************************)

\* The elements of a finite set of integers in ascending order (the
\* iteration order of the id-keyed maps).
RECURSIVE Ascending(_)
Ascending(S) ==
    IF S = {} THEN <<>>
    ELSE LET m == CHOOSE x \in S : \A y \in S : x <= y
         IN <<m>> \o Ascending(S \ {m})

RECURSIVE TableNamesOfTables(_, _, _, _, _)
TableNamesOfTables(partition, ids, j, pred, table_names) ==
    IF j > Len(ids) THEN [err |-> "", set |-> table_names]
    ELSE IF matches_timestamp_predicate(partition.tables[ids[j]], pred)
         THEN LET table_name == lookup_id(partition.dictionary, ids[j]) IN
              IF table_name = None
              THEN [err |-> "TableIdNotFoundInDictionary", set |-> {}]
              ELSE TableNamesOfTables(partition, ids, j + 1, pred,
                                      table_names \cup {table_name[1]})
         ELSE TableNamesOfTables(partition, ids, j + 1, pred, table_names)

RECURSIVE TableNamesFrom(_, _, _, _)
TableNamesFrom(parts, i, range, table_names) ==
    IF i > Len(parts) THEN [err |-> "", set |-> table_names]
    ELSE LET timestamp_predicate == make_timestamp_predicate(parts[i], range) IN
         IF ~timestamp_predicate.ok THEN [err |-> "PartitionError", set |-> {}]
         ELSE LET r == TableNamesOfTables(parts[i], Ascending(DOMAIN parts[i].tables),
                                          1, timestamp_predicate.pred, table_names)
              IN IF r.err # "" THEN r
                 ELSE TableNamesFrom(parts, i + 1, range, r.set)

\* table_names that drops the range: every table with a row is named.
table_names_no_range(parts, range) == TableNamesFrom(parts, 1, None, {})

\* table_names whose name set is created anew for each partition: the names
\* of the last partition only.
table_names_last_partition(parts, range) ==
    TableNamesFrom(parts, IF Len(parts) = 0 THEN 1 ELSE Len(parts), range, {})

\* Db::table_names(range) on the partition list `parts`
table_names(parts, range) == TableNamesFrom(parts, 1, range, {})

\* The visitors: the record holds the visitor's fields, and `calls`, the
\* hook calls made on the visitor so far, in call order.
NameVisitor ==
    [kind |-> "NameVisitor", column_names |-> {}, partition_column_ids |-> {},
     calls |-> <<>>]

ValueVisitor(column_name) ==
    [kind |-> "ValueVisitor", column_name |-> column_name, column_id |-> None,
     partition_value_ids |-> {}, column_values |-> {}, calls |-> <<>>]

\* A hook call: the hook with the partition, table and column it is given
\* (None where the hook has no such argument).
HookCall(hook, key, table_id, column_id) ==
    [hook |-> hook, partition |-> key, table |-> table_id, column |-> column_id]

\* The visitor as the hook is entered.
Called(visitor, call) == [visitor EXCEPT !.calls = Append(@, call)]

Ok(visitor) == [err |-> "", visitor |-> visitor]
Err(e, visitor) == [err |-> e, visitor |-> visitor]

pre_visit_partition(visitor, partition) ==
    IF visitor.kind = "NameVisitor"
    THEN Ok([visitor EXCEPT !.partition_column_ids = {}])
    ELSE LET id == lookup_value(partition.dictionary, visitor.column_name) IN
         IF id = None
         THEN Err("ColumnNameNotFoundInDictionary",
                  [visitor EXCEPT !.partition_value_ids = {}])
         ELSE Ok([visitor EXCEPT !.partition_value_ids = {}, !.column_id = id])

\* Visitor::pre_visit_table, which neither visitor overrides
pre_visit_table(visitor, table, partition, ts_pred) == Ok(visitor)

\* Visitor::post_visit_table, which neither visitor overrides
post_visit_table(visitor, table, partition) == Ok(visitor)

\* NameVisitor::visit_column
NameVisitColumn(visitor, table, column_id, column, ts_pred) ==
    IF /\ column.kind = "Tag"
       /\ column_matches_timestamp_predicate(table, column.values, ts_pred)
    THEN Ok([visitor EXCEPT !.partition_column_ids = @ \cup {column_id}])
    ELSE Ok(visitor)

\* ValueVisitor::visit_column that takes the values of a column of any type.
ValueVisitColumnAnyType(visitor, table, column_id, column, ts_pred) ==
    IF Some(column_id) # visitor.column_id THEN Ok(visitor)
    ELSE Ok([visitor EXCEPT !.partition_value_ids =
               @ \cup {column.values[i][1] :
                         i \in {k \in 1..Len(column.values) : column.values[k] # None}}])

\* ValueVisitor::visit_column
ValueVisitColumn(visitor, table, column_id, column, ts_pred) ==
    IF Some(column_id) # visitor.column_id THEN Ok(visitor)
    ELSE IF column.kind # "Tag"
    THEN Err("UnsupportedColumnTypeForListingValues", visitor)
    ELSE IF ts_pred = None
    THEN Ok([visitor EXCEPT !.partition_value_ids =
               @ \cup {column.values[i][1] :
                         i \in {k \in 1..Len(column.values) : column.values[k] # None}}])
    ELSE LET time_column == column_i64(table, ts_pred[1].time_column_id) IN
         IF time_column = None THEN Err("TableError", visitor)
         ELSE Ok([visitor EXCEPT !.partition_value_ids =
                    @ \cup {column.values[i][1] :
                              i \in {k \in 1..Len(column.values) :
                                       /\ k <= Len(time_column[1])
                                       /\ contains_opt(ts_pred[1].range, time_column[1][k])
                                       /\ column.values[k] # None}}])

visit_column(visitor, table, column_id, column, ts_pred) ==
    IF visitor.kind = "NameVisitor"
    THEN NameVisitColumn(visitor, table, column_id, column, ts_pred)
    ELSE ValueVisitColumn(visitor, table, column_id, column, ts_pred)

\* The strings of a set of symbols; fails on a symbol the dictionary lacks.
Resolve(dictionary, ids) == {lookup_id(dictionary, id)[1] : id \in ids}
Resolvable(dictionary, ids) == \A id \in ids : lookup_id(dictionary, id) # None

post_visit_partition(visitor, partition) ==
    IF visitor.kind = "NameVisitor"
    THEN IF ~Resolvable(partition.dictionary, visitor.partition_column_ids)
         THEN Err("ColumnIdNotFoundInDictionary", visitor)
         ELSE Ok([visitor EXCEPT !.column_names =
                    @ \cup Resolve(partition.dictionary, visitor.partition_column_ids)])
    ELSE IF ~Resolvable(partition.dictionary, visitor.partition_value_ids)
         THEN Err("ColumnValueIdNotFoundInDictionary", visitor)
         ELSE Ok([visitor EXCEPT !.column_values =
                    @ \cup Resolve(partition.dictionary, visitor.partition_value_ids)])

RECURSIVE VisitColumns(_, _, _, _, _, _)
VisitColumns(visitor, key, table, ids, k, ts_pred) ==
    IF k > Len(ids) THEN Ok(visitor)
    ELSE LET r == visit_column(Called(visitor, HookCall("visit_column", key,
                                                        Some(table.id), Some(ids[k]))),
                               table, ids[k],
                               table.columns[table.column_id_to_index[ids[k]] + 1],
                               ts_pred)
         IN IF r.err # "" THEN r
            ELSE VisitColumns(r.visitor, key, table, ids, k + 1, ts_pred)

\* The columns and the post hook of a table whose pre hook returned `pre`.
TableColumnsVisited(pre, partition, table, ts_pred) ==
    IF pre.err # "" THEN pre
    ELSE LET mid == VisitColumns(pre.visitor, partition.key, table,
                                 Ascending(DOMAIN table.column_id_to_index), 1, ts_pred)
         IN IF mid.err # "" THEN mid
            ELSE post_visit_table(Called(mid.visitor,
                                         HookCall("post_visit_table", partition.key,
                                                  Some(table.id), None)),
                                  table, partition)

\* A table visit that goes on after a column failed and reports success.
VisitTableLenient(visitor, partition, table, ts_pred) ==
    LET r == TableColumnsVisited(Ok(Called(visitor,
                                           HookCall("pre_visit_table", partition.key,
                                                    Some(table.id), None))),
                                 partition, table, ts_pred)
    IN Ok(r.visitor)

\* A table visit that calls post_visit_table ahead of the columns.
VisitTablePostFirst(visitor, partition, table, ts_pred) ==
    VisitColumns(Called(Called(visitor,
                               HookCall("pre_visit_table", partition.key,
                                        Some(table.id), None)),
                        HookCall("post_visit_table", partition.key, Some(table.id), None)),
                 partition.key, table,
                 Ascending(DOMAIN table.column_id_to_index), 1, ts_pred)

\* The visit of one table that passed the filters: pre_visit_table, the
\* columns, post_visit_table.
VisitTable(visitor, partition, table, ts_pred) ==
    TableColumnsVisited(pre_visit_table(Called(visitor,
                                               HookCall("pre_visit_table", partition.key,
                                                        Some(table.id), None)),
                                        table, partition, ts_pred),
                        partition, table, ts_pred)

RECURSIVE VisitTablesOf(_, _, _, _, _, _)
VisitTablesOf(visitor, partition, ids, j, table_symbol, ts_pred) ==
    IF j > Len(ids) THEN Ok(visitor)
    ELSE LET table == partition.tables[ids[j]] IN
         IF /\ matches_id_predicate(table, table_symbol)
            /\ matches_timestamp_predicate(table, ts_pred)
         THEN LET r == VisitTable(visitor, partition, table, ts_pred)
              IN IF r.err # "" THEN r
                 ELSE VisitTablesOf(r.visitor, partition, ids, j + 1, table_symbol, ts_pred)
         ELSE VisitTablesOf(visitor, partition, ids, j + 1, table_symbol, ts_pred)

RECURSIVE VisitPartitions(_, _, _, _, _)
VisitPartitions(parts, i, table, range, visitor) ==
    IF i > Len(parts) THEN Ok(visitor)
    ELSE LET partition == parts[i]
             timestamp_predicate == make_timestamp_predicate(partition, range)
             table_symbol == IF table = None THEN None
                             ELSE lookup_value(partition.dictionary, table[1])
         IN IF ~timestamp_predicate.ok THEN Err("PartitionError", visitor)
            ELSE IF table # None /\ table_symbol = None
            THEN Err("TableNameNotFoundInDictionary", visitor)
            ELSE LET pre == pre_visit_partition(
                              Called(visitor, HookCall("pre_visit_partition",
                                                       partition.key, None, None)),
                              partition) IN
                 IF pre.err # "" THEN pre
                 ELSE LET mid == VisitTablesOf(pre.visitor, partition,
                                               Ascending(DOMAIN partition.tables), 1,
                                               table_symbol, timestamp_predicate.pred)
                      IN IF mid.err # "" THEN mid
                         ELSE LET post == post_visit_partition(
                                            Called(mid.visitor,
                                                   HookCall("post_visit_partition",
                                                            partition.key, None, None)),
                                            partition) IN
                              IF post.err # "" THEN post
                              ELSE VisitPartitions(parts, i + 1, table, range, post.visitor)

\* Db::visit_tables
visit_tables(parts, table, range, visitor) == VisitPartitions(parts, 1, table, range, visitor)

\* Db::tag_column_names(table, range, None)
tag_column_names(parts, table, range) ==
    LET r == visit_tables(parts, table, range, NameVisitor)
    IN IF r.err # "" THEN [err |-> r.err, set |-> {}]
       ELSE [err |-> "", set |-> r.visitor.column_names]

\* Db::column_values(column_name, table, range, None)
column_values(parts, column_name, table, range) ==
    LET r == visit_tables(parts, table, range, ValueVisitor(column_name))
    IN IF r.err # "" THEN [err |-> r.err, set |-> {}]
       ELSE [err |-> "", set |-> r.visitor.column_values]

\* Table::to_arrow: the requested columns in the requested order (all
\* columns in column-id order for an empty request), tags as their strings.
ArrowColumn(partition, column) ==
    [kind |-> column.kind,
     values |-> [i \in 1..Len(column.values) |->
                   IF column.kind = "Tag" /\ column.values[i] # None
                   THEN lookup_id(partition.dictionary, column.values[i][1])
                   ELSE column.values[i]]]

TableToArrow(partition, table, columns) ==
    LET ids == IF columns = <<>>
               THEN [k \in 1..Cardinality(DOMAIN table.column_id_to_index) |->
                       Some(Ascending(DOMAIN table.column_id_to_index)[k])]
               ELSE [k \in 1..Len(columns) |-> lookup_value(partition.dictionary, columns[k])]
    IN IF \E k \in 1..Len(ids) :
            ids[k] = None \/ ids[k][1] \notin DOMAIN table.column_id_to_index
       THEN [err |-> "MissingColumn", batch |-> <<>>]
       ELSE [err |-> "",
             batch |-> [k \in 1..Len(ids) |->
                          ArrowColumn(partition,
                                      table.columns[table.column_id_to_index[ids[k][1]] + 1])]]

\* Partition::table_to_arrow
PartitionTableToArrow(partition, table_name, columns) ==
    LET id == lookup_value(partition.dictionary, table_name) IN
    IF id = None THEN [err |-> "TableNameNotFoundInDictionary", batch |-> <<>>]
    ELSE IF id[1] \notin DOMAIN partition.tables
    THEN [err |-> "TableNotFoundInPartition", batch |-> <<>>]
    ELSE TableToArrow(partition, partition.tables[id[1]], columns)

\* Db::table_to_arrow: one record batch per partition, the first error otherwise
table_to_arrow(parts, table_name, columns) ==
    LET each == [i \in 1..Len(parts) |-> PartitionTableToArrow(parts[i], table_name, columns)]
    IN IF \E i \in 1..Len(parts) : each[i].err # ""
       THEN [err |-> each[CHOOSE i \in 1..Len(parts) :
                            /\ each[i].err # ""
                            /\ \A j \in 1..(i - 1) : each[j].err = ""].err,
             batches |-> <<>>]
       ELSE [err |-> "", batches |-> [i \in 1..Len(parts) |-> each[i].batch]]

(***************************************************************************)
(* Write path and recovery                                                 *)
(***************************************************************************)

\* A search that looks at the newest partition only.
FindPartitionNewestOnly(parts, key) ==
    IF parts # <<>> /\ should_write(parts[Len(parts)], key) THEN Len(parts) ELSE 0

\* The index of the first partition that should_write the key, 0 if none.
FindPartition(parts, key) ==
    IF \E i \in 1..Len(parts) : should_write(parts[i], key)
    THEN CHOOSE i \in 1..Len(parts) :
           /\ should_write(parts[i], key)
           /\ \A j \in 1..(i - 1) : ~should_write(parts[j], key)
    ELSE 0

WrittenInPlace(parts, i, r) ==
    [ok |-> r.ok, partitions |-> [parts EXCEPT ![i] = r.partition]]

\* A new partition put at the head of the list.
WrittenToNewAtFront(parts, r) ==
    IF r.ok THEN [ok |-> TRUE, partitions |-> <<r.partition>> \o parts]
    ELSE [ok |-> FALSE, partitions |-> parts]

\* The new partition pushed whether the entry applied or not.
WrittenToNewPushed(parts, r) ==
    [ok |-> r.ok, partitions |-> Append(parts, r.partition)]

WrittenToNew(parts, r) ==
    IF r.ok THEN [ok |-> TRUE, partitions |-> Append(parts, r.partition)]
    ELSE [ok |-> FALSE, partitions |-> parts]

ApplyEntryAt(parts, entry, i) ==
    IF i > 0 THEN WrittenInPlace(parts, i, write_entry(parts[i], entry))
    ELSE WrittenToNew(parts, write_entry(NewPartition(entry.partition_key), entry))

\* One iteration of the entry loop of write_lines on the partition list:
\* the entry goes to the partition with its key, or to a new partition that
\* is pushed only when the entry applied.
ApplyEntry(parts, entry) == ApplyEntryAt(parts, entry, FindPartition(parts, entry.partition_key))

RECURSIVE ReplayEntries(_, _, _)
EntryReplayed(entries, j, r) ==
    IF r.ok THEN ReplayEntries(r.partitions, entries, j + 1)
    ELSE [ok |-> FALSE, partitions |-> r.partitions]

ReplayEntries(parts, entries, j) ==
    IF j > Len(entries) THEN [ok |-> TRUE, partitions |-> parts]
    ELSE EntryReplayed(entries, j, ApplyEntry(parts, entries[j]))

\* A replay that applies the frames newest first.
RECURSIVE ReplayFramesNewestFirst(_, _, _)
NewestFirstReplayed(frames, i, r) ==
    IF r.ok THEN ReplayFramesNewestFirst(r.partitions, frames, i + 1)
    ELSE [ok |-> FALSE, partitions |-> r.partitions]

ReplayFramesNewestFirst(parts, frames, i) ==
    IF i > Len(frames) THEN [ok |-> TRUE, partitions |-> parts]
    ELSE NewestFirstReplayed(frames, i,
                             ReplayEntries(parts, frames[Len(frames) + 1 - i].data, 1))

\* decode_batch on the bytes of a frame: whether they decode. The frames the
\* WAL sync task writes are records without the field `undecodable`.
Decodes(frame) == "undecodable" \notin DOMAIN frame

RECURSIVE ReplayFrames(_, _, _)
FrameReplayed(frames, i, r) ==
    IF r.ok THEN ReplayFrames(r.partitions, frames, i + 1)
    ELSE [ok |-> FALSE, partitions |-> r.partitions]

ReplayFrames(parts, frames, i) ==
    IF i > Len(frames) THEN [ok |-> TRUE, partitions |-> parts]
    ELSE IF ~Decodes(frames[i]) THEN [ok |-> FALSE, partitions |-> parts]
    ELSE FrameReplayed(frames, i, ReplayEntries(parts, frames[i].data, 1))

\* A replay that starts from an empty partition list at every frame: the
\* partitions of the last frame only.
restore_partitions_last_frame(frames) ==
    ReplayFrames(<<>>, frames, IF frames = <<>> THEN 1 ELSE Len(frames))

\* partition::restore_partitions_from_wal: the frames oldest first, each
\* entry applied as on the write path; a failing entry aborts the replay.
restore_partitions_from_wal(frames) == ReplayFrames(<<>>, frames, 1)

\* The number of rows held by a partition list.
RECURSIVE SumOver(_, _)
SumOver(f, S) ==
    IF S = {} THEN 0
    ELSE LET x == CHOOSE x \in S : TRUE IN f[x] + SumOver(f, S \ {x})

TotalRows(parts) ==
    SumOver([i \in 1..Len(parts) |->
               SumOver([t \in DOMAIN parts[i].tables |-> row_count(parts[i].tables[t])],
                       DOMAIN parts[i].tables)],
            1..Len(parts))

(***************************************************************************)
(* State                                                                   *)
(***************************************************************************)

VARIABLES
    partitions,   \* Db.partitions: the partition list behind the RwLock
    wal,          \* the frames of the WAL directory, oldest first
    wal_details,  \* whether the Db has a WAL handle (Db.wal_details is Some)
    lock,         \* the RwLock: its writer ("" when none) and its readers
    pc,           \* where each write_lines call / read operation stands
    call,         \* per writer: the batch of its current write_lines call
    chan,         \* requests sent to the WAL sync task and not yet answered
    ack,          \* per writer: the sync task's answer to its request
    result,       \* per writer: what its last write_lines call returned
    hist          \* history: call numbering and what each call did

vars == <<partitions, wal, wal_details, lock, pc, call, chan, ack, result, hist>>

Procs == Writers \cup Readers

NoCall == [id |-> 0, data |-> <<>>, idx |-> 0, lines |-> 0, rows |-> 0]

Init ==
    /\ partitions = <<>>
    /\ wal = <<>>
    /\ wal_details = TRUE
    /\ lock = [writer |-> "", readers |-> {}]
    /\ pc = [p \in Procs |-> "idle"]
    /\ call = [w \in Writers |-> NoCall]
    /\ chan = <<>>
    /\ ack = [w \in Writers |-> "none"]
    /\ result = [w \in Writers |-> "none"]
    /\ hist = [writes |-> 0,        \* write_lines calls started
               restore |-> "none",  \* what the last restore_from_wal returned
               applied |-> <<>>,    \* call ids, in the order entries reached memory
               in_mem |-> {},       \* calls with at least one row in memory
               partial |-> {},      \* returned calls with only some rows in memory
               failed |-> {},       \* calls that returned an error
               all_ok |-> TRUE]     \* every returned call returned Ok

Release(w) == IF lock.writer = w THEN [lock EXCEPT !.writer = ""] ELSE lock

\* The history once writer w's call has returned `res`.
Returned(w, res) ==
    [hist EXCEPT
       !.failed = IF res = "Ok" THEN @ ELSE @ \cup {call[w].id},
       !.partial = IF 0 < call[w].rows /\ call[w].rows < call[w].lines
                   THEN @ \cup {call[w].id} ELSE @,
       !.all_ok = @ /\ res = "Ok"]

\* Whether partition_key can take the timestamp of every line.
AllTimestamped(lines) == \A i \in 1..Len(lines) : lines[i].timestamp # None

\* write_lines, to the encoded batch: the writer lock is taken, the lines
\* are grouped by partition key and encoded.  partition_key unwraps the
\* timestamp of each line: on a line without one the call panics, and the
\* unwinding drops the lock guard.
WriteLinesLock(w, lines) ==
    /\ pc[w] \in {"idle", "lock"}
    /\ hist.writes < MaxWrites
    /\ lock.writer = "" /\ lock.readers = {}
    /\ ack' = [ack EXCEPT ![w] = "none"]
    /\ IF AllTimestamped(lines)
       THEN /\ lock' = [lock EXCEPT !.writer = w]
            /\ call' = [call EXCEPT ![w] =
                          [id |-> hist.writes + 1,
                           data |-> split_lines_into_write_entry_partitions(lines),
                           idx |-> 1, lines |-> Len(lines), rows |-> 0]]
            /\ pc' = [pc EXCEPT ![w] = "apply"]
            /\ result' = [result EXCEPT ![w] = "none"]
            /\ hist' = [hist EXCEPT !.writes = @ + 1]
       ELSE /\ result' = [result EXCEPT ![w] = "panic"]
            /\ hist' = [hist EXCEPT !.writes = @ + 1,
                                    !.failed = @ \cup {hist.writes + 1},
                                    !.all_ok = FALSE]
            /\ pc' = [pc EXCEPT ![w] = "idle"]
            /\ UNCHANGED <<lock, call>>
    /\ UNCHANGED <<partitions, wal, wal_details, chan>>

\* The history once an entry of writer w's call has added `added` rows.
Applied(w, added) ==
    [hist EXCEPT
       !.applied = IF added > 0 THEN Append(@, call[w].id) ELSE @,
       !.in_mem = IF added > 0 THEN @ \cup {call[w].id} ELSE @]

\* The entry's outcome r: the loop goes on, or PartitionError is returned at
\* once and the lock guard dropped.
EntryApplied(w, r, added) ==
    /\ partitions' = r.partitions
    /\ call' = [call EXCEPT ![w].idx = @ + 1, ![w].rows = @ + added]
    /\ IF r.ok
       THEN /\ hist' = Applied(w, added)
            /\ UNCHANGED <<pc, result, lock>>
       ELSE /\ pc' = [pc EXCEPT ![w] = "idle"]
            /\ result' = [result EXCEPT ![w] = "PartitionError"]
            /\ lock' = Release(w)
            /\ hist' = [Applied(w, added) EXCEPT
                          !.failed = @ \cup {call[w].id},
                          !.partial = IF /\ 0 < call[w].rows + added
                                         /\ call[w].rows + added < call[w].lines
                                      THEN @ \cup {call[w].id} ELSE @,
                          !.all_ok = FALSE]

EntryResult(w, r) == EntryApplied(w, r, TotalRows(r.partitions) - TotalRows(partitions))

\* The entry loop with the lock guard dropped once an entry is applied,
\* before the batch is handed to the WAL.
WriteLinesEntryUnlock(w) ==
    /\ pc[w] = "apply"
    /\ call[w].idx <= Len(call[w].data)
    /\ LET r == ApplyEntry(partitions, call[w].data[call[w].idx])
           added == TotalRows(r.partitions) - TotalRows(partitions)
       IN /\ partitions' = r.partitions
          /\ call' = [call EXCEPT ![w].idx = @ + 1, ![w].rows = @ + added]
          /\ lock' = Release(w)
          /\ IF r.ok
             THEN /\ hist' = Applied(w, added)
                  /\ UNCHANGED <<pc, result>>
             ELSE /\ pc' = [pc EXCEPT ![w] = "idle"]
                  /\ result' = [result EXCEPT ![w] = "PartitionError"]
                  /\ hist' = [Applied(w, added) EXCEPT
                                !.failed = @ \cup {call[w].id},
                                !.partial = IF /\ 0 < call[w].rows + added
                                               /\ call[w].rows + added < call[w].lines
                                            THEN @ \cup {call[w].id} ELSE @,
                                !.all_ok = FALSE]
    /\ UNCHANGED <<wal, wal_details, chan, ack>>

\* write_lines, one iteration of the entry loop.
WriteLinesEntry(w) ==
    /\ pc[w] = "apply"
    /\ call[w].idx <= Len(call[w].data)
    /\ EntryResult(w, ApplyEntry(partitions, call[w].data[call[w].idx]))
    /\ UNCHANGED <<wal, wal_details, chan, ack>>

\* write_lines that hands the batch to the WAL sync task and returns Ok
\* without awaiting the answer.
WriteLinesWalNoWait(w) ==
    /\ pc[w] = "apply"
    /\ call[w].idx > Len(call[w].data)
    /\ chan' = IF wal_details
               THEN Append(chan, [from |-> w, call |-> call[w].id, data |-> call[w].data])
               ELSE chan
    /\ pc' = [pc EXCEPT ![w] = "idle"]
    /\ result' = [result EXCEPT ![w] = "Ok"]
    /\ lock' = Release(w)
    /\ hist' = Returned(w, "Ok")
    /\ UNCHANGED <<partitions, wal, wal_details, call, ack>>

\* write_lines, after the loop: the encoded batch goes to the WAL sync task
\* and the call waits for the answer; without a WAL handle it returns Ok.
WriteLinesWal(w) ==
    /\ pc[w] = "apply"
    /\ call[w].idx > Len(call[w].data)
    /\ IF wal_details
       THEN /\ chan' = Append(chan, [from |-> w, call |-> call[w].id, data |-> call[w].data])
            /\ pc' = [pc EXCEPT ![w] = "wal"]
            /\ UNCHANGED <<result, lock, hist>>
       ELSE /\ pc' = [pc EXCEPT ![w] = "idle"]
            /\ result' = [result EXCEPT ![w] = "Ok"]
            /\ lock' = Release(w)
            /\ hist' = Returned(w, "Ok")
            /\ UNCHANGED chan
    /\ UNCHANGED <<partitions, wal, wal_details, call, ack>>

\* The WAL sync task appends the oldest request's bytes, syncs and answers.
WalSyncOk ==
    /\ chan # <<>>
    /\ wal' = Append(wal, [call |-> Head(chan).call, data |-> Head(chan).data])
    /\ ack' = [ack EXCEPT ![Head(chan).from] = "ok"]
    /\ chan' = Tail(chan)
    /\ UNCHANGED <<partitions, wal_details, lock, pc, call, result, hist>>

\* The append or the sync fails: nothing is added to the WAL.
WalSyncFail ==
    /\ chan # <<>>
    /\ ack' = [ack EXCEPT ![Head(chan).from] = "err"]
    /\ chan' = Tail(chan)
    /\ UNCHANGED <<partitions, wal, wal_details, lock, pc, call, result, hist>>

\* write_lines that drops the answer of write_and_sync and returns Ok.
WriteLinesReturnOk(w) ==
    /\ pc[w] = "wal"
    /\ ack[w] # "none"
    /\ result' = [result EXCEPT ![w] = "Ok"]
    /\ hist' = Returned(w, "Ok")
    /\ pc' = [pc EXCEPT ![w] = "idle"]
    /\ lock' = Release(w)
    /\ UNCHANGED <<partitions, wal, wal_details, call, chan, ack>>

\* write_lines that empties the partition list when write_and_sync failed.
WriteLinesReturnCleared(w) ==
    /\ pc[w] = "wal"
    /\ ack[w] # "none"
    /\ result' = [result EXCEPT ![w] = IF ack[w] = "ok" THEN "Ok" ELSE "WritingWal"]
    /\ hist' = Returned(w, IF ack[w] = "ok" THEN "Ok" ELSE "WritingWal")
    /\ partitions' = IF ack[w] = "ok" THEN partitions ELSE <<>>
    /\ pc' = [pc EXCEPT ![w] = "idle"]
    /\ lock' = Release(w)
    /\ UNCHANGED <<wal, wal_details, call, chan, ack>>

\* write_lines that returns with the write guard still held.
WriteLinesReturnHeld(w) ==
    /\ pc[w] = "wal"
    /\ ack[w] # "none"
    /\ result' = [result EXCEPT ![w] = IF ack[w] = "ok" THEN "Ok" ELSE "WritingWal"]
    /\ hist' = Returned(w, IF ack[w] = "ok" THEN "Ok" ELSE "WritingWal")
    /\ pc' = [pc EXCEPT ![w] = "idle"]
    /\ UNCHANGED <<partitions, wal, wal_details, lock, call, chan, ack>>

\* write_lines, write_and_sync has answered: Ok, or the WritingWal error.
WriteLinesReturn(w) ==
    /\ pc[w] = "wal"
    /\ ack[w] # "none"
    /\ LET res == IF ack[w] = "ok" THEN "Ok" ELSE "WritingWal" IN
       /\ result' = [result EXCEPT ![w] = res]
       /\ hist' = Returned(w, res)
    /\ pc' = [pc EXCEPT ![w] = "idle"]
    /\ lock' = Release(w)
    /\ UNCHANGED <<partitions, wal, wal_details, call, chan, ack>>

\* A read operation that goes to the partitions while a writer holds the lock.
ReadLockShared(r) ==
    /\ pc[r] = "idle"
    /\ lock' = [lock EXCEPT !.readers = @ \cup {r}]
    /\ pc' = [pc EXCEPT ![r] = "reading"]
    /\ UNCHANGED <<partitions, wal, wal_details, call, chan, ack, result, hist>>

\* A read operation takes the reader lock (self.partitions.read().await) ...
ReadLock(r) ==
    /\ pc[r] \in {"idle", "lock"}
    /\ lock.writer = ""
    /\ lock' = [lock EXCEPT !.readers = @ \cup {r}]
    /\ pc' = [pc EXCEPT ![r] = "reading"]
    /\ UNCHANGED <<partitions, wal, wal_details, call, chan, ack, result, hist>>

\* A read operation that resolved a name with the inserting lookup: the
\* name is in the first partition's dictionary when the read lock is dropped.
ReadUnlockInterned(r) ==
    /\ pc[r] = "reading"
    /\ lock' = [lock EXCEPT !.readers = @ \ {r}]
    /\ pc' = [pc EXCEPT ![r] = "idle"]
    /\ partitions' = IF partitions = <<>> THEN partitions
                     ELSE [partitions EXCEPT ![1].dictionary = intern(@, "mem").dictionary]
    /\ UNCHANGED <<wal, wal_details, call, chan, ack, result, hist>>

\* ... and drops it when the traversal is over.
ReadUnlock(r) ==
    /\ pc[r] = "reading"
    /\ lock' = [lock EXCEPT !.readers = @ \ {r}]
    /\ pc' = [pc EXCEPT ![r] = "idle"]
    /\ UNCHANGED <<partitions, wal, wal_details, call, chan, ack, result, hist>>

\* The replay's outcome r: the new Db, or WalRecoverError and no Db.
Restored(r) ==
    IF r.ok
    THEN /\ partitions' = r.partitions
         /\ wal_details' = TRUE
         /\ hist' = [hist EXCEPT !.restore = "Ok",
                                 !.in_mem = {wal[i].call : i \in 1..Len(wal)},
                                 !.partial = {}]
    ELSE /\ hist' = [hist EXCEPT !.restore = "WalRecoverError"]
         /\ UNCHANGED <<partitions, wal_details>>

\* restore_from_wal that takes the oldest frame for the metadata and does
\* not replay it.
RestoreFromWalSkipFirst ==
    /\ \A p \in Procs : pc[p] = "idle"
    /\ chan = <<>>
    /\ Restored(restore_partitions_from_wal(IF wal = <<>> THEN wal ELSE Tail(wal)))
    /\ UNCHANGED <<wal, lock, pc, call, chan, ack, result>>

\* Db::restore_from_wal: the Db is dropped and the directory reopened; the
\* new Db holds the partitions replayed from the WAL and a WAL handle.
RestoreFromWal ==
    /\ \A p \in Procs : pc[p] = "idle"
    /\ chan = <<>>
    /\ Restored(restore_partitions_from_wal(wal))
    /\ UNCHANGED <<wal, lock, pc, call, chan, ack, result>>

Next ==
    \/ \E w \in Writers, lines \in Batches : WriteLinesLock(w, lines)
    \/ \E w \in Writers : WriteLinesEntry(w)
    \/ \E w \in Writers : WriteLinesWal(w)
    \/ WalSyncOk
    \/ WalSyncFail
    \/ \E w \in Writers : WriteLinesReturn(w)
    \/ \E r \in Readers : ReadLock(r)
    \/ \E r \in Readers : ReadUnlock(r)
    \/ RestoreFromWal

Spec == Init /\ [][Next]_vars

(***************************************************************************)
(* What the state holds, read off the columns                              *)
(***************************************************************************)

Reading == lock.readers # {}

\* The column of the table whose name is `name`, None if it has none.
ColumnNamed(partition, table, name) ==
    IF \E c \in DOMAIN table.column_id_to_index :
         lookup_id(partition.dictionary, c) = Some(name)
    THEN Some(table.columns[
                table.column_id_to_index[
                  CHOOSE c \in DOMAIN table.column_id_to_index :
                    lookup_id(partition.dictionary, c) = Some(name)] + 1])
    ELSE None

\* The tables held, as <<partition index, table id>> pairs.
AllTables(parts) ==
    UNION {{<<i, t>> : t \in DOMAIN parts[i].tables} : i \in 1..Len(parts)}

TableName(parts, it) == lookup_id(parts[it[1]].dictionary, it[2])

\* The tables that the optional table name selects.
TablesNamed(parts, table) ==
    {it \in AllTables(parts) : table = None \/ TableName(parts, it) = table}

RowsOf(parts, it) == 1..row_count(parts[it[1]].tables[it[2]])

\* The rows of the table whose time is in the optional range.
RowsInRange(parts, it, range) ==
    IF range = None THEN RowsOf(parts, it)
    ELSE LET time == ColumnNamed(parts[it[1]], parts[it[1]].tables[it[2]], "time") IN
         IF time = None THEN {}
         ELSE {r \in 1..Len(time[1].values) :
                 /\ time[1].values[r] # None
                 /\ range[1].start <= time[1].values[r][1]
                 /\ time[1].values[r][1] < range[1].end}

\* Names of the tables with at least one row whose time is in the range.
TablesWithRows(parts, range) ==
    {TableName(parts, it)[1] :
       it \in {x \in AllTables(parts) : RowsInRange(parts, x, range) # {}}}

\* The distinct non-null values of tag column `name` in the selected tables
\* and rows.
TagValuesHeld(parts, name, table, range) ==
    UNION {
      LET partition == parts[it[1]]
          column == ColumnNamed(partition, partition.tables[it[2]], name)
      IN IF column = None \/ column[1].kind # "Tag" THEN {}
         ELSE {lookup_id(partition.dictionary, column[1].values[r][1])[1] :
                 r \in {x \in RowsInRange(parts, it, range) : column[1].values[x] # None}}
      : it \in TablesNamed(parts, table)}

\* The names of the Tag columns with a non-null value in a selected row.
TagColumnsHeld(parts, table, range) ==
    UNION {
      LET partition == parts[it[1]]
          t == partition.tables[it[2]]
      IN {lookup_id(partition.dictionary, c)[1] :
            c \in {x \in DOMAIN t.column_id_to_index :
                     /\ t.columns[t.column_id_to_index[x] + 1].kind = "Tag"
                     /\ \E r \in RowsInRange(parts, it, range) :
                          t.columns[t.column_id_to_index[x] + 1].values[r] # None}}
      : it \in TablesNamed(parts, table)}

\* The names that are a Tag column of some table, and the table names held.
TagColumnNames(parts) == TagColumnsHeld(parts, None, None)
TableArgs(parts) == {None} \cup {TableName(parts, it) : it \in AllTables(parts)}

(***************************************************************************)
(* Claims                                                                  *)
(***************************************************************************)

Idle == \A p \in Procs : pc[p] = "idle"

WalCalls == {wal[i].call : i \in 1..Len(wal)}

ArrowTables == {"cpu", "disk", "mem", "region"}

Projections ==
    { <<>>, <<"region">>, <<"time">>, <<"host">>, <<"region", "host">>,
      <<"user", "time", "region">>, <<"state", "bytes">>, <<"nope">> }

\* C2: when every write_lines call returned Ok, the Db that restore_from_wal
\* builds gives for every table and projection the table_to_arrow result
\* (partitions in order, rows, values, nulls) that the original Db gave.
RestoreKeepsArrow ==
    [][(RestoreFromWal /\ hist.all_ok) =>
         \A t \in ArrowTables : \A cols \in Projections :
           table_to_arrow(partitions', t, cols) = table_to_arrow(partitions, t, cols)]_vars

\* C2 witness: a Db restored after two Ok calls, with cpu in two partitions
\* and a null among its values.
RestoreKeepsArrowWitness ==
    /\ hist.restore = "Ok"
    /\ hist.all_ok
    /\ hist.writes = 2
    /\ Len(wal) = 2
    /\ table_to_arrow(partitions, "cpu", <<>>).err = ""
    /\ Len(table_to_arrow(partitions, "cpu", <<>>).batches) = 2
    /\ \E b \in 1..2 :
         \E c \in 1..Len(table_to_arrow(partitions, "cpu", <<>>).batches[b]) :
           \E r \in 1..Len(table_to_arrow(partitions, "cpu", <<>>).batches[b][c].values) :
             table_to_arrow(partitions, "cpu", <<>>).batches[b][c].values[r] = None

\* C3 (as claimed): whenever no write_lines call is in progress on a Db with
\* a WAL handle, every row in memory belongs to a batch whose frame is in
\* the WAL.
MemoryOnlyIfAppended ==
    (Idle /\ wal_details) => hist.in_mem \subseteq WalCalls

\* C3 (amended): whenever no write_lines call is in progress on a Db with a
\* WAL handle, every row in memory belongs to a batch whose frame is in the
\* WAL or to a call that returned an error to its caller; the rows of a call
\* whose WAL append failed are not rolled back.
MemoryAppendedOrFailed ==
    (Idle /\ wal_details) => hist.in_mem \subseteq (WalCalls \cup hist.failed)

\* C3 witness: no call in progress, and rows in memory of a call that
\* returned WritingWal and has no frame in the WAL.
MemoryAppendedOrFailedWitness ==
    /\ Idle /\ wal_details
    /\ \E w \in Writers :
         /\ result[w] = "WritingWal"
         /\ call[w].id \in hist.in_mem
         /\ call[w].id \notin WalCalls
         /\ call[w].rows = call[w].lines

\* C4: with a WAL handle, write_lines has returned Ok only if write_and_sync
\* acknowledged that call's batch and the frame is in the WAL.
OkOnlyAfterAck ==
    \A w \in Writers :
      (wal_details /\ result[w] = "Ok") =>
        /\ ack[w] = "ok"
        /\ \E i \in 1..Len(wal) :
             wal[i].call = call[w].id /\ wal[i].data = call[w].data

\* C4 witness: one call returned Ok, another the WritingWal error.
OkOnlyAfterAckWitness ==
    \E w \in Writers, v \in Writers :
      /\ result[w] = "Ok" /\ ack[w] = "ok"
      /\ result[v] = "WritingWal"

\* The calls of which only some rows are in memory.
PartialInMemory ==
    hist.partial \cup
    {call[w].id : w \in {x \in Writers :
                           /\ pc[x] # "idle"
                           /\ 0 < call[x].rows
                           /\ call[x].rows < call[x].lines}}

\* A reader, or a writer other than the call's own, holds the lock.
Observed(id) ==
    \/ lock.readers # {}
    \/ lock.writer # "" /\ call[lock.writer].id # id

\* C5 (as claimed): no reader and no other writer ever observes a batch of
\* which only some rows or entries have been applied.
NoPartialBatchObserved ==
    \A id \in PartialInMemory : ~Observed(id)

\* C5 (amended): a call holds the writer lock, with no reader in, from its
\* first entry to its return, and a partially applied batch that a reader
\* or another writer observes belongs to a call that returned an error.
PartialOnlyAfterError ==
    /\ \A w \in Writers :
         pc[w] \in {"apply", "wal"} => (lock.writer = w /\ lock.readers = {})
    /\ \A id \in PartialInMemory : Observed(id) => id \in hist.failed

\* C5 witness: a reader holds the lock while a failed call's batch is
\* partially in memory.
PartialOnlyAfterErrorWitness ==
    /\ lock.readers # {}
    /\ hist.partial # {}
    /\ hist.writes = 2

\* The position of a call's first applied entry in the application order.
FirstApplied(id) ==
    CHOOSE k \in 1..Len(hist.applied) :
      /\ hist.applied[k] = id
      /\ \A j \in 1..(k - 1) : hist.applied[j] # id

\* C6: the frames are in the WAL in the order in which their batches were
\* applied to memory.
WalOrderIsApplyOrder ==
    \A i \in 1..Len(wal) : \A j \in 1..Len(wal) :
      i < j =>
        /\ \E k \in 1..Len(hist.applied) : hist.applied[k] = wal[i].call
        /\ \E k \in 1..Len(hist.applied) : hist.applied[k] = wal[j].call
        /\ FirstApplied(wal[i].call) < FirstApplied(wal[j].call)

\* C6 witness: the calls of two writers both have their frame in the WAL.
WalOrderIsApplyOrderWitness ==
    /\ Len(wal) = 2
    /\ result["w1"] = "Ok" /\ result["w2"] = "Ok"
    /\ call["w2"].id = 1 /\ call["w1"].id = 2

\* C7: a name is in table_names(Some([a, b))) exactly if some partition holds
\* a table of that name with a row whose time t has a <= t < b.
TableNamesInRange ==
    Reading =>
      \A range \in Ranges :
        table_names(partitions, Some(range))
          = [err |-> "", set |-> TablesWithRows(partitions, Some(range))]

\* C7 witness: a range that selects some of the tables, another that ends
\* just at a row's time and leaves its table out.
TableNamesInRangeWitness ==
    /\ Reading
    /\ table_names(partitions, Some([start |-> 0, end |-> 2])).set = {"cpu"}
    /\ table_names(partitions, Some([start |-> 0, end |-> 3])).set = {"cpu", "disk"}
    /\ table_names(partitions, Some([start |-> 2, end |-> 3])).set = {"disk"}

\* C8: table_names(None) is the union over the partitions of the names of
\* the tables with a row; empty on a Db without writes.
TableNamesAll ==
    Reading =>
      /\ table_names(partitions, None)
           = [err |-> "", set |-> TablesWithRows(partitions, None)]
      /\ hist.writes = 0 => table_names(partitions, None).set = {}

\* C8 witness: cpu is in two partitions, disk in one, both names returned.
TableNamesAllWitness ==
    /\ Reading
    /\ Len(partitions) = 2
    /\ \A i \in 1..2 : lookup_value(partitions[i].dictionary, "cpu") # None
    /\ table_names(partitions, None).set = {"cpu", "disk"}

\* C9 (as claimed): column_values(name, table, range) returns the distinct
\* non-null values of tag column name in the selected tables and rows.
ColumnValuesExact ==
    Reading =>
      \A name \in TagColumnNames(partitions) :
        \A table \in TableArgs(partitions) : \A range \in OptRanges :
          column_values(partitions, name, table, range)
            = [err |-> "", set |-> TagValuesHeld(partitions, name, table, range)]

\* C10 (as claimed): tag_column_names(table, range) returns the names of the
\* Tag columns with a non-null value in a selected row.
TagColumnNamesExact ==
    Reading =>
      \A table \in TableArgs(partitions) : \A range \in OptRanges :
        tag_column_names(partitions, table, range)
          = [err |-> "", set |-> TagColumnsHeld(partitions, table, range)]

\* The lines of the batches.
Lines == UNION {{batch[i] : i \in 1..Len(batch)} : batch \in Batches}

\* The values of the column with symbol id in the table.
ValuesOf(table, id) == table.columns[table.column_id_to_index[id] + 1].values

\* Whether appending the interned row `values` to table `before` gave
\* `after` as claimed: a new column has a null for each earlier row and then
\* its value, a column of the row has its value appended, every other column
\* a null.
RowBackfilled(before, values, after) ==
    /\ row_count(after) = row_count(before) + 1
    /\ \A i \in 1..Len(values) :
         /\ values[i].id \in DOMAIN after.column_id_to_index
         /\ ValuesOf(after, values[i].id)
              = IF values[i].id \in DOMAIN before.column_id_to_index
                THEN Append(ValuesOf(before, values[i].id), Some(values[i].v))
                ELSE Append(Nulls(row_count(before)), Some(values[i].v))
    /\ \A id \in DOMAIN before.column_id_to_index :
         (\A i \in 1..Len(values) : values[i].id # id) =>
           ValuesOf(after, id) = Append(ValuesOf(before, id), None)

\* C11: appending a row to a table of N rows gives a column that is new N
\* nulls and then its value, and a column that the row omits a null; here
\* for every table of a reachable state and every line of its measurement
\* that is appended without a type error.
BackfillOnNewColumn ==
    \A i \in 1..Len(partitions) : \A line \in Lines :
      LET table_id == lookup_value(partitions[i].dictionary, line.measurement) IN
      (/\ line.timestamp # None
       /\ table_id # None
       /\ table_id[1] \in DOMAIN partitions[i].tables) =>
        LET r == InternRow(partitions[i].dictionary, LineValues(line), 1, <<>>)
            a == append_row(partitions[i].tables[table_id[1]], r.values)
        IN a.ok => RowBackfilled(partitions[i].tables[table_id[1]], r.values, a.table)

\* C11 witness: a table whose second row brought a new column and left out
\* an existing one.
BackfillOnNewColumnWitness ==
    \E i \in 1..Len(partitions) : \E t \in DOMAIN partitions[i].tables :
      /\ row_count(partitions[i].tables[t]) = 2
      /\ \E c \in 1..Len(partitions[i].tables[t].columns) :
           /\ partitions[i].tables[t].columns[c].values[1] = None
           /\ partitions[i].tables[t].columns[c].values[2] # None
      /\ \E c \in 1..Len(partitions[i].tables[t].columns) :
           /\ partitions[i].tables[t].columns[c].values[1] # None
           /\ partitions[i].tables[t].columns[c].values[2] = None

\* The partitions that hold a table of that name.
Holders(parts, table_name) ==
    {i \in 1..Len(parts) :
       /\ lookup_value(parts[i].dictionary, table_name) # None
       /\ lookup_value(parts[i].dictionary, table_name)[1] \in DOMAIN parts[i].tables}

\* C12 (as claimed): table_to_arrow returns one record batch for each
\* partition that holds the table, and fails only if no partition knows a
\* table of that name.
ArrowBatchPerHolder ==
    Reading =>
      \A table_name \in ArrowTables :
        /\ table_to_arrow(partitions, table_name, <<>>).err # "" =>
             Holders(partitions, table_name) = {}
        /\ table_to_arrow(partitions, table_name, <<>>).err = "" =>
             Len(table_to_arrow(partitions, table_name, <<>>).batches)
               = Cardinality(Holders(partitions, table_name))

RECURSIVE Flatten(_)
Flatten(seqs) == IF seqs = <<>> THEN <<>> ELSE Head(seqs) \o Flatten(Tail(seqs))

\* The rows that the frames wrote to table `name` of partition `key`, in
\* frame, entry and row order.
EntryRows(entry, name) ==
    Flatten([j \in 1..Len(entry.table_batches) |->
               IF entry.table_batches[j].table = name
               THEN entry.table_batches[j].rows ELSE <<>>])

FrameRows(frame, key, name) ==
    Flatten([e \in 1..Len(frame.data) |->
               IF frame.data[e].partition_key = key
               THEN EntryRows(frame.data[e], name) ELSE <<>>])

RowsWritten(frames, key, name) ==
    Flatten([f \in 1..Len(frames) |-> FrameRows(frames[f], key, name)])

FrameKeys(frames) ==
    UNION {{frames[f].data[e].partition_key : e \in 1..Len(frames[f].data)} :
             f \in 1..Len(frames)}

\* A written row as the set of its (column name, variant, value) triples.
RowWritten(row) ==
    {[name |-> row[i].name, kind |-> ColumnKind(row[i].kind), v |-> row[i].v] :
       i \in 1..Len(row)}

\* Row r of a table as the same kind of set, read off the columns: the
\* non-null values, a tag value as its string.
RowHeld(partition, table, r) ==
    {[name |-> lookup_id(partition.dictionary, c)[1],
      kind |-> ArrowColumn(partition, table.columns[table.column_id_to_index[c] + 1]).kind,
      v |-> ArrowColumn(partition, table.columns[table.column_id_to_index[c] + 1]).values[r][1]] :
       c \in {x \in DOMAIN table.column_id_to_index :
                table.columns[table.column_id_to_index[x] + 1].values[r] # None}}

WrittenNames == {"cpu", "disk", "mem"}

\* The partitions hold, for table `name` of partition `key`, the rows
\* `rows` and nothing else: no such table when there are no rows.
HoldsRows(parts, key, name, rows) ==
    IF rows = <<>>
    THEN \A i \in Holders(parts, name) : parts[i].key # key
    ELSE /\ Cardinality({i \in 1..Len(parts) : parts[i].key = key}) = 1
         /\ \E i \in Holders(parts, name) :
              /\ parts[i].key = key
              /\ LET table == parts[i].tables[lookup_value(parts[i].dictionary, name)[1]] IN
                 /\ row_count(table) = Len(rows)
                 /\ \A r \in 1..Len(rows) : RowHeld(parts[i], table, r) = RowWritten(rows[r])
                 /\ {lookup_id(parts[i].dictionary, c)[1] : c \in DOMAIN table.column_id_to_index}
                      = UNION {{rows[r][x].name : x \in 1..Len(rows[r])} : r \in 1..Len(rows)}

\* The replay of the frames after the first k gives the rows of those
\* frames only, and projecting a table that only the skipped frames wrote
\* fails with TableNameNotFoundInDictionary.
SuffixReplayed(k) ==
    LET rest == SubSeq(wal, k + 1, Len(wal))
        r == restore_partitions_from_wal(rest)
    IN /\ r.ok
       /\ \A key \in FrameKeys(wal) : \A name \in WrittenNames :
            HoldsRows(r.partitions, key, name, RowsWritten(rest, key, name))
       /\ \A name \in WrittenNames :
            (/\ \E key \in FrameKeys(wal) : RowsWritten(SubSeq(wal, 1, k), key, name) # <<>>
             /\ \A key \in FrameKeys(wal) : RowsWritten(rest, key, name) = <<>>) =>
              table_to_arrow(r.partitions, name, <<>>).err = "TableNameNotFoundInDictionary"

KeyHours ==
    {-8761, -8760, -745, -744, -25, -24, -1, 0, 1, 23, 24, 743, 744,
     1415, 1416, 18959, 18960, 18983, 18984, 444474, 444482}

\* The timestamps tried: the first and the last tick of each of those hours.
KeyTimes ==
    {h * TicksPerHour : h \in KeyHours}
      \cup {h * TicksPerHour + (TicksPerHour - 1) : h \in KeyHours}

KeyLine(ts) == Line("cpu", <<>>, <<Field("user", "F64", 23)>>, ts)

KeyInit ==
    /\ call \in [Writers -> {[line |-> KeyLine(ts)] : ts \in KeyTimes}]
    /\ result = [w \in Writers |-> None]
    /\ partitions = <<>>
    /\ wal = <<>>
    /\ wal_details = FALSE
    /\ lock = [writer |-> "", readers |-> {}]
    /\ pc = [p \in Procs |-> "idle"]
    /\ chan = <<>>
    /\ ack = [w \in Writers |-> "none"]
    /\ hist = <<>>

\* The key of w's line is computed.
KeyOf(w) ==
    /\ result[w] = None
    /\ result' = [result EXCEPT ![w] = Some(partition_key(call[w].line))]
    /\ UNCHANGED <<partitions, wal, wal_details, lock, pc, call, chan, ack, hist>>

KeyNext == \E w \in Writers : KeyOf(w)

KeySpec == KeyInit /\ [][KeyNext]_vars

\* Timestamps t1 and t2 lie in the same hour: q * 3.6e12 <= t < (q + 1) * 3.6e12
\* for the same q.
SameHour(t1, t2) ==
    \E q \in {t1 \div TicksPerHour - 1, t1 \div TicksPerHour, t1 \div TicksPerHour + 1} :
      /\ q * TicksPerHour <= t1 /\ t1 < (q + 1) * TicksPerHour
      /\ q * TicksPerHour <= t2 /\ t2 < (q + 1) * TicksPerHour

ReadsChangeNothing ==
    [][(lock.readers # {} \/ lock'.readers # {}) =>
         (partitions' = partitions /\ wal' = wal)]_vars

\* C15 witness: a read operation under way on two partitions, on which
\* tag_column_names succeeds and column_values fails.
ReadsChangeNothingWitness ==
    /\ Reading
    /\ Len(partitions) = 2
    /\ wal # <<>>
    /\ tag_column_names(partitions, None, None).err = ""
    /\ column_values(partitions, "region", None, None).err # ""

\* C16: within the life of a Db every step keeps the partitions already in
\* the list at their positions and adds new ones only at the end; only
\* recovery, which builds the list of a new Db from the WAL, replaces it.
PartitionsOnlyAppended ==
    [][RestoreFromWal \/
       /\ Len(partitions') >= Len(partitions)
       /\ \A i \in 1..Len(partitions) : partitions'[i].key = partitions[i].key]_vars

\* C16 witness: two partitions in creation order, the later hour created
\* first, so that creation order and key order differ.
PartitionsOnlyAppendedWitness ==
    /\ Len(partitions) = 2
    /\ partitions[1].key[4] > partitions[2].key[4]
    /\ TotalRows(partitions) >= 3

\* The visitors and the table arguments the traversal is checked with: both
\* concrete visitors, a column name that is a tag, one that is a field and
\* one that partitions may lack, every table held, and a name ("region")
\* that the dictionary knows but that is no table.
Visitors ==
    {NameVisitor, ValueVisitor("region"), ValueVisitor("host"), ValueVisitor("user")}

\* The ranges the traversal is checked with: none, the first hour, a part
\* of the first hour, and a range inside the second hour.
VisitRanges ==
    {None, Some(Range(0, 3)), Some(Range(2, 3)),
     Some(Range(TicksPerHour + 1, TicksPerHour + 2))}

VisitArgs(parts) == TableArgs(parts) \cup {Some("region")}

\* The hook calls of a depth-first visit of one table, of one partition and
\* of the first n partitions, for partitions whose dictionary resolves `table`.
ExpectedTable(partition, table, ids) ==
    <<HookCall("pre_visit_table", partition.key, Some(table.id), None)>>
    \o [k \in 1..Len(ids) |->
          HookCall("visit_column", partition.key, Some(table.id), Some(ids[k]))]
    \o <<HookCall("post_visit_table", partition.key, Some(table.id), None)>>

PassesFilters(partition, id, table, range) ==
    /\ table = None \/ lookup_value(partition.dictionary, table[1]) = Some(id)
    /\ matches_timestamp_predicate(partition.tables[id],
                                   make_timestamp_predicate(partition, range).pred)

ExpectedTables(partition, ids, table, range) ==
    Flatten([j \in 1..Len(ids) |->
               IF PassesFilters(partition, ids[j], table, range)
               THEN ExpectedTable(partition, partition.tables[ids[j]],
                                  Ascending(DOMAIN partition.tables[ids[j]].column_id_to_index))
               ELSE <<>>])

ExpectedPartition(partition, table, range) ==
    <<HookCall("pre_visit_partition", partition.key, None, None)>>
    \o ExpectedTables(partition, Ascending(DOMAIN partition.tables), table, range)
    \o <<HookCall("post_visit_partition", partition.key, None, None)>>

ExpectedCalls(parts, n, table, range) ==
    Flatten([i \in 1..n |-> ExpectedPartition(parts[i], table, range)])

DepthFirstIfOk(r, parts, table, range) ==
    r.err = "" => r.visitor.calls = ExpectedCalls(parts, Len(parts), table, range)

\* C17: a traversal that succeeds has called the hooks in depth-first
\* order: for each partition in list order pre_visit_partition, then for
\* each table that passes the filters pre_visit_table, visit_column once
\* per column and post_visit_table, then post_visit_partition, also for a
\* partition in which no table passes.
HooksDepthFirst ==
      \A table \in VisitArgs(partitions), range \in VisitRanges, visitor \in Visitors :
        DepthFirstIfOk(visit_tables(partitions, table, range, visitor),
                       partitions, table, range)

\* C17 witness: a successful traversal of two partitions, in one of which
\* no table passes the filters (its pre hook is followed by its post hook)
\* while a table with two columns or more is visited in the other.
HooksDepthFirstWitness ==
    /\ Len(partitions) = 2
    /\ \E range \in VisitRanges :
         LET r == visit_tables(partitions, None, range, NameVisitor)
         IN /\ r.err = ""
            /\ \E k \in 1..(Len(r.visitor.calls) - 1) :
                 /\ r.visitor.calls[k].hook = "pre_visit_partition"
                 /\ r.visitor.calls[k + 1].hook = "post_visit_partition"
            /\ \E k \in 1..(Len(r.visitor.calls) - 1) :
                 /\ r.visitor.calls[k].hook = "visit_column"
                 /\ r.visitor.calls[k + 1].hook = "visit_column"

\* The first partition whose dictionary lacks the table name asked for
\* (one past the end of the list when every partition resolves it).
FirstUnknown(parts, table) ==
    IF \E i \in 1..Len(parts) :
         table # None /\ lookup_value(parts[i].dictionary, table[1]) = None
    THEN CHOOSE i \in 1..Len(parts) :
           /\ lookup_value(parts[i].dictionary, table[1]) = None
           /\ \A j \in 1..(i - 1) : lookup_value(parts[j].dictionary, table[1]) # None
    ELSE Len(parts) + 1

PartitionOfKey(parts, key) == parts[CHOOSE i \in 1..Len(parts) : parts[i].key = key]

\* Whether the hook call fails on the visitor: a ValueVisitor's
\* pre_visit_partition on a partition that lacks the column name, and its
\* visit_column on a column of that name that is no Tag column.
ColumnCallFails(visitor, partition, c) ==
    /\ lookup_id(partition.dictionary, c.column[1]) = Some(visitor.column_name)
    /\ partition.tables[c.table[1]].columns[
         partition.tables[c.table[1]].column_id_to_index[c.column[1]] + 1].kind # "Tag"

CallFails(visitor, parts, c) ==
    /\ visitor.kind = "ValueVisitor"
    /\ \/ /\ c.hook = "pre_visit_partition"
          /\ lookup_value(PartitionOfKey(parts, c.partition).dictionary,
                          visitor.column_name) = None
       \/ /\ c.hook = "visit_column"
          /\ ColumnCallFails(visitor, PartitionOfKey(parts, c.partition), c)

\* The index of the first call of `calls` that fails, 0 when none does.
FirstFailing(visitor, parts, calls) ==
    IF \E k \in 1..Len(calls) : CallFails(visitor, parts, calls[k])
    THEN CHOOSE k \in 1..Len(calls) :
           /\ CallFails(visitor, parts, calls[k])
           /\ \A j \in 1..(k - 1) : ~CallFails(visitor, parts, calls[j])
    ELSE 0

\* The traversal result r against the depth-first calls `expected` up to
\* the first partition that does not resolve the table name, the first of
\* them to fail being the k-th (0: none).
StoppedAt(r, expected, k, unknown) ==
    IF k > 0 THEN r.err # "" /\ r.visitor.calls = SubSeq(expected, 1, k)
    ELSE /\ r.visitor.calls = expected
         /\ r.err = IF unknown THEN "TableNameNotFoundInDictionary" ELSE ""

StopsAtFailure(parts, table, range, visitor, expected) ==
    StoppedAt(visit_tables(parts, table, range, visitor), expected,
              FirstFailing(visitor, parts, expected),
              FirstUnknown(parts, table) <= Len(parts))

\* What the caller of tag_column_names / column_values gets: the error of
\* the traversal and no set.
ErrorSurfaces(r, out) == r.err # "" => out.err = r.err /\ out.set = {}

\* C18: a traversal stops at the first hook call or lookup that fails: the
\* calls made are the depth-first calls up to and including the failing
\* one (up to the partition that does not know the table), the traversal
\* returns an error, and tag_column_names / column_values return that
\* error and no set.
TraversalStopsAtFailure ==
      \A table \in VisitArgs(partitions), range \in VisitRanges :
        /\ \A visitor \in Visitors :
             StopsAtFailure(partitions, table, range, visitor,
                            ExpectedCalls(partitions, FirstUnknown(partitions, table) - 1,
                                          table, range))
        /\ ErrorSurfaces(visit_tables(partitions, table, range, NameVisitor),
                         tag_column_names(partitions, table, range))
        /\ \A name \in {"host", "user"} :
             ErrorSurfaces(visit_tables(partitions, table, range, ValueVisitor(name)),
                           column_values(partitions, name, table, range))

\* C18 witness: on two partitions, column_values("user") fails at a
\* visit_column of the first partition and column_values("host") at the
\* pre_visit_partition of the second; hooks were left uncalled in both.
TraversalStopsAtFailureWitness ==
    /\ Len(partitions) = 2
    /\ LET r == visit_tables(partitions, None, None, ValueVisitor("user"))
       IN /\ r.err # ""
          /\ r.visitor.calls[Len(r.visitor.calls)].hook = "visit_column"
          /\ r.visitor.calls[Len(r.visitor.calls)].partition = partitions[1].key
          /\ Len(r.visitor.calls) < Len(ExpectedCalls(partitions, 2, None, None))
    /\ LET r == visit_tables(partitions, None, None, ValueVisitor("host"))
       IN /\ r.err # ""
          /\ r.visitor.calls[Len(r.visitor.calls)].hook = "pre_visit_partition"
          /\ r.visitor.calls[Len(r.visitor.calls)].partition = partitions[2].key

\* Whether the traversal visited (called pre_visit_table on) a table that
\* has a column named `name` which is no Tag column.
NonTagColumn(partition, table, name) ==
    /\ ColumnNamed(partition, table, name) # None
    /\ ColumnNamed(partition, table, name)[1].kind # "Tag"

VisitedNonTag(parts, calls, name) ==
    \E k \in 1..Len(calls) :
      /\ calls[k].hook = "pre_visit_table"
      /\ NonTagColumn(PartitionOfKey(parts, calls[k].partition),
                      PartitionOfKey(parts, calls[k].partition).tables[calls[k].table[1]],
                      name)

\* The strings held by the Tag columns named `name`.
TagStrings(parts, name) ==
    UNION {
      LET partition == parts[it[1]]
          column == ColumnNamed(partition, partition.tables[it[2]], name)
      IN IF column = None \/ column[1].kind # "Tag" THEN {}
         ELSE {lookup_id(partition.dictionary, column[1].values[r][1])[1] :
                 r \in {x \in 1..Len(column[1].values) : column[1].values[x] # None}}
      : it \in AllTables(parts)}

UnsupportedIffNonTag(r, parts, name) ==
    /\ r.err = "UnsupportedColumnTypeForListingValues"
         <=> VisitedNonTag(parts, r.visitor.calls, name)
    /\ r.err = "" => r.visitor.column_values \subseteq TagStrings(parts, name)

\* C19: column_values(name, ..) fails with
\* UnsupportedColumnTypeForListingValues exactly when a table it visited
\* has a column named `name` that is no Tag column, and the values its
\* visitor hands back are values of Tag columns.
UnsupportedOnlyForNonTag ==
      \A name \in {"region", "host", "user", "bytes"},
         table \in VisitArgs(partitions), range \in VisitRanges :
        UnsupportedIffNonTag(visit_tables(partitions, table, range, ValueVisitor(name)),
                             partitions, name)

\* C19 witness: on the same partitions column_values fails with
\* UnsupportedColumnTypeForListingValues for the field "user" and returns
\* tag values for "region", in a table that holds both.
UnsupportedOnlyForNonTagWitness ==
    /\ column_values(partitions, "user", Some("cpu"), None).err =
         "UnsupportedColumnTypeForListingValues"
    /\ column_values(partitions, "region", Some("cpu"), None).err = ""
    /\ column_values(partitions, "region", Some("cpu"), None).set # {}

\* C20: a write_lines call given a line without a timestamp returns
\* BadInput, leaves the partitions and the WAL as they were and leaves the
\* lock free.
NoTimestampIsBadInput ==
    [][\A w \in Writers, lines \in Batches :
         (WriteLinesLock(w, lines) /\ ~AllTimestamped(lines)) =>
           /\ result'[w] = "BadInput"
           /\ partitions' = partitions
           /\ wal' = wal
           /\ lock'.writer = ""]_vars

(***************************************************************************)
(* The partition lists that read operations see: the lists left by whole   *)
(* write_lines calls (reads wait for the writer's lock guard to drop).     *)
(***************************************************************************)

\* Number of write_lines calls behind a partition list.
MaxBatches == 3

BatchInit ==
    /\ partitions = <<>>
    /\ wal = <<>>
    /\ wal_details = FALSE
    /\ lock = [writer |-> "", readers |-> {}]
    /\ pc = [p \in Procs |-> "idle"]
    /\ call = [w \in Writers |-> NoCall]
    /\ chan = <<>>
    /\ ack = [w \in Writers |-> "none"]
    /\ result = [w \in Writers |-> "none"]
    /\ hist = 0

\* A whole write_lines call without a WAL handle: the entries are applied
\* in order up to the first that fails.
WriteBatch(lines) ==
    /\ hist < MaxBatches
    /\ AllTimestamped(lines)
    /\ partitions' = ReplayEntries(partitions,
                                   split_lines_into_write_entry_partitions(lines), 1).partitions
    /\ hist' = hist + 1
    /\ UNCHANGED <<wal, wal_details, lock, pc, call, chan, ack, result>>

BatchNext == \E lines \in Batches : WriteBatch(lines)

BatchSpec == BatchInit /\ [][BatchNext]_vars

(***************************************************************************)
(* Lines that name a column `time`                                         *)
(***************************************************************************)

\* cpu time=77i 1                 (a field named like the timestamp column)
LineTimeField == Line("cpu", <<>>, <<Field("time", "I64", 77)>>, 1)
\* cpu,time=noon user=10.0 2      (a tag named like the timestamp column)
LineTimeTag == Line("cpu", <<Tag("time", "noon")>>, <<Field("user", "F64", 10)>>, 2)

TimeBatches ==
    {batch \in Batches : AllTimestamped(batch)}
      \cup {<<LineTimeField>>, <<LineTimeTag>>, <<LineCpuWest, LineTimeField>>}

\* A whole write_lines call of writer w1 without a WAL handle, with what it
\* returned: write_lines has no check of the column names (the TODO above
\* it), the entries go to write_entry as they are.
WriteTimed(lines) ==
    /\ hist < MaxBatches
    /\ partitions' = ReplayEntries(partitions,
                                   split_lines_into_write_entry_partitions(lines), 1).partitions
    /\ result' = [result EXCEPT !["w1"] =
                    IF ReplayEntries(partitions,
                                     split_lines_into_write_entry_partitions(lines), 1).ok
                    THEN "Ok" ELSE "PartitionError"]
    /\ call' = [call EXCEPT !["w1"] = lines]
    /\ hist' = hist + 1
    /\ UNCHANGED <<wal, wal_details, lock, pc, chan, ack>>

TimeNext == \E lines \in TimeBatches : WriteTimed(lines)

TimeSpec == BatchInit /\ [][TimeNext]_vars

\* Whether a line of the batch has a tag or a field named `time`.
NamesTime(lines) ==
    \E i \in 1..Len(lines) :
      \/ \E t \in 1..Len(lines[i].tags) : lines[i].tags[t].name = "time"
      \/ \E f \in 1..Len(lines[i].fields) : lines[i].fields[f].name = "time"

\* C21: a write_lines call with a line that has a tag or a field named
\* `time` fails, and no `time` column holds a value supplied as a tag or a
\* field (the field value 77 of the lines above).
TimeColumnReserved ==
    /\ (call["w1"] # NoCall /\ NamesTime(call["w1"])) => result["w1"] # "Ok"
    /\ \A i \in 1..Len(partitions) : \A t \in DOMAIN partitions[i].tables :
         LET time == ColumnNamed(partitions[i], partitions[i].tables[t], "time")
         IN time # None =>
              \A r \in 1..Len(time[1].values) : time[1].values[r] # Some(77)

(***************************************************************************)
(* Db::query: the statement loop, then registration, planning, execution   *)
(***************************************************************************)

\* Parsed statements: a query with a SELECT body and its FROM tables, a
\* query with another body (a UNION), and a statement that is no query.
Select(from) == [kind |-> "Query", body |-> "Select", from |-> from]
Union == [kind |-> "Query", body |-> "SetOperation", from |-> <<>>]
Insert == [kind |-> "Insert", body |-> "", from |-> <<>>]

\* The SQL texts given to query, as what Parser::parse_sql makes of them
\* (None: a parse error).  No line writes a table "mem".
Sqls ==
    { None,
      Some(<<Select(<<"cpu">>)>>),
      Some(<<Select(<<"disk">>)>>),
      Some(<<Select(<<"mem">>)>>),
      Some(<<Select(<<"cpu", "disk">>)>>),
      Some(<<Union>>),
      Some(<<Insert>>),
      Some(<<Select(<<"cpu">>), Insert>>),
      Some(<<Select(<<"mem">>), Insert>>),
      Some(<<Insert, Select(<<"cpu">>)>>) }

\* The locals of a query call: the parsed statements, the statement the
\* loop is at, the FROM item it is at (0 outside a FROM list), the tables
\* loaded, the tables registered and the plans executed.
NoQuery ==
    [ast |-> <<>>, idx |-> 0, from |-> 0, tables |-> <<>>, registered |-> {}, plans |-> 0]

\* hist: the partition lists left by the write_lines calls so far.
QueryInit ==
    /\ partitions = <<>>
    /\ wal = <<>>
    /\ wal_details = FALSE
    /\ lock = [writer |-> "", readers |-> {}]
    /\ pc = [p \in Procs |-> "idle"]
    /\ call = [r \in Readers |-> NoQuery]
    /\ chan = <<>>
    /\ ack = [w \in Writers |-> "none"]
    /\ result = [r \in Readers |-> "none"]
    /\ hist = <<>>

\* query, the parse: InvalidSqlQuery on a parse error.
QueryParse(r, sql) ==
    /\ pc[r] = "idle"
    /\ IF sql = None
       THEN /\ result' = [result EXCEPT ![r] = "InvalidSqlQuery"]
            /\ call' = [call EXCEPT ![r] = NoQuery]
            /\ UNCHANGED pc
       ELSE /\ result' = [result EXCEPT ![r] = "none"]
            /\ call' = [call EXCEPT ![r] = [NoQuery EXCEPT !.ast = sql[1], !.idx = 1]]
            /\ pc' = [pc EXCEPT ![r] = "statements"]
    /\ UNCHANGED <<partitions, wal, wal_details, lock, chan, ack, hist>>

\* One FROM table: table_to_arrow(&name, &[]) with `?`, then data[0], which
\* panics on an empty vector, then the push to `tables`.
TableLoaded(q, name, data) ==
    IF data.err # "" THEN [err |-> "PartitionError", q |-> q]
    ELSE IF data.batches = <<>> THEN [err |-> "panic", q |-> q]
    ELSE [err |-> "",
          q |-> [q EXCEPT !.tables = Append(@, [name |-> name, statement |-> q.idx,
                                                data |-> data.batches])]]

\* The FROM loop goes to its next item, or ends and with it the statement.
FromNext(q) ==
    IF q.from = Len(q.ast[q.idx].from)
    THEN [q EXCEPT !.from = 0, !.idx = @ + 1]
    ELSE [q EXCEPT !.from = @ + 1]

TableRead(loaded) ==
    IF loaded.err # "" THEN loaded ELSE [err |-> "", q |-> FromNext(loaded.q)]

\* A statement loop that passes over the statements that are no query.
StatementResultSkipOther(q, statement) ==
    IF statement.kind = "Query" /\ statement.body = "Select" /\ statement.from # <<>>
    THEN [err |-> "", q |-> [q EXCEPT !.from = 1]]
    ELSE [err |-> "", q |-> [q EXCEPT !.idx = @ + 1]]

\* The match on one statement: a SELECT enters the loop over its FROM
\* items, a query with another body is passed over, any other statement is
\* UnsupportedStatement.
StatementResult(q, statement) ==
    IF statement.kind = "Query"
    THEN IF statement.body = "Select" /\ statement.from # <<>>
         THEN [err |-> "", q |-> [q EXCEPT !.from = 1]]
         ELSE [err |-> "", q |-> [q EXCEPT !.idx = @ + 1]]
    ELSE [err |-> "UnsupportedStatement", q |-> q]

StatementDone(r, s) ==
    /\ call' = [call EXCEPT ![r] = s.q]
    /\ IF s.err # ""
       THEN /\ result' = [result EXCEPT ![r] = s.err]
            /\ pc' = [pc EXCEPT ![r] = "idle"]
       ELSE UNCHANGED <<result, pc>>

\* query, the match on the next statement of the loop.
QueryStatement(r) ==
    /\ pc[r] = "statements"
    /\ call[r].from = 0
    /\ call[r].idx <= Len(call[r].ast)
    /\ StatementDone(r, StatementResult(call[r], call[r].ast[call[r].idx]))
    /\ UNCHANGED <<partitions, wal, wal_details, lock, chan, ack, hist>>

\* query, one item of a FROM list: table_to_arrow takes the reader lock,
\* reads the table in every partition and releases the lock as it returns.
QueryTable(r) ==
    /\ pc[r] = "statements"
    /\ call[r].from > 0
    /\ StatementDone(r, TableRead(TableLoaded(
                          call[r], call[r].ast[call[r].idx].from[call[r].from],
                          table_to_arrow(partitions,
                                         call[r].ast[call[r].idx].from[call[r].from],
                                         <<>>))))
    /\ UNCHANGED <<partitions, wal, wal_details, lock, chan, ack, hist>>

\* query, after the loop: the loaded tables are registered, the plan is
\* created, optimized and executed by the execution engine, whose answer
\* is Ok or QueryError.
QueryExecute(r, answer) ==
    /\ pc[r] = "statements"
    /\ call[r].from = 0
    /\ call[r].idx > Len(call[r].ast)
    /\ call' = [call EXCEPT
                  ![r].registered = {call[r].tables[k].name : k \in 1..Len(call[r].tables)},
                  ![r].plans = 1]
    /\ result' = [result EXCEPT ![r] = answer]
    /\ pc' = [pc EXCEPT ![r] = "idle"]
    /\ UNCHANGED <<partitions, wal, wal_details, lock, chan, ack, hist>>

\* Number of write_lines calls made while queries run.
MaxQueryWrites == 2

\* A whole write_lines call, between two lock holds of the readers.
QueryWrite(lines) ==
    /\ Len(hist) < MaxQueryWrites
    /\ AllTimestamped(lines)
    /\ partitions' = ReplayEntries(partitions,
                                   split_lines_into_write_entry_partitions(lines), 1).partitions
    /\ hist' = Append(hist, partitions')
    /\ UNCHANGED <<wal, wal_details, lock, pc, call, chan, ack, result>>

QueryNext ==
    \/ \E r \in Readers, sql \in Sqls : QueryParse(r, sql)
    \/ \E r \in Readers : QueryStatement(r)
    \/ \E r \in Readers : QueryTable(r)
    \/ \E r \in Readers, answer \in {"Ok", "QueryError"} : QueryExecute(r, answer)
    \/ \E lines \in Batches : QueryWrite(lines)

QuerySpec == QueryInit /\ [][QueryNext]_vars

QueryReturned(r) == pc[r] = "idle" /\ result[r] \notin {"none", "InvalidSqlQuery"}

NonQueryAt(ast) == {k \in 1..Len(ast) : ast[k].kind # "Query"}

FirstNonQuery(ast) == CHOOSE k \in NonQueryAt(ast) : \A j \in NonQueryAt(ast) : k <= j

\* C22 (as claimed): a query with a statement that is not a SELECT fails
\* with UnsupportedStatement, registers no table and executes no plan.
UnsupportedForNonSelect ==
    \A r \in Readers :
      (QueryReturned(r) /\ NonQueryAt(call[r].ast) # {}) =>
        /\ result[r] = "UnsupportedStatement"
        /\ call[r].registered = {}
        /\ call[r].plans = 0

\* C22 (amended): a query with a statement that is not a SELECT never
\* returns Ok, registers no table and executes no plan; it returns
\* UnsupportedStatement when the loop reaches the first such statement,
\* and the error of an earlier statement's table otherwise.
UnsupportedWhenReached ==
    \A r \in Readers :
      (QueryReturned(r) /\ NonQueryAt(call[r].ast) # {}) =>
        /\ call[r].registered = {}
        /\ call[r].plans = 0
        /\ call[r].idx <= FirstNonQuery(call[r].ast)
        /\ IF call[r].idx = FirstNonQuery(call[r].ast)
           THEN result[r] = "UnsupportedStatement"
           ELSE result[r] \in {"PartitionError", "panic"}

\* C22 witness: a SELECT loaded its table, the statement after it is no
\* query and the call returned UnsupportedStatement.
UnsupportedWhenReachedWitness ==
    \E r \in Readers :
      /\ QueryReturned(r)
      /\ call[r].ast = <<Select(<<"cpu">>), Insert>>
      /\ Len(call[r].tables) = 1
      /\ result[r] = "UnsupportedStatement"

\* C23: a query whose first FROM table was never written ("mem") returns
\* an error, in every state of the Db and also without partitions, and no
\* table is registered and no plan created or executed.
UnknownTableIsError ==
    \A r \in Readers :
      (QueryReturned(r) /\ call[r].ast[1].kind = "Query" /\ call[r].ast[1].from = <<"mem">>) =>
        /\ result[r] = "PartitionError"
        /\ call[r].registered = {}
        /\ call[r].plans = 0

\* Rows whose type mismatch comes after values for other columns: an
\* existing tag, and a tag that is a new column, ahead of `user` as integer.
LineCpuWestInt == Line("cpu", <<Tag("region", "west")>>, <<Field("user", "I64", 3)>>, 3)
LineCpuZoneInt == Line("cpu", <<Tag("zone", "z1")>>, <<Field("user", "I64", 3)>>, 3)

\* cpu region="w" 3              (a string field named like the tag region)
LineCpuRegionField == Line("cpu", <<>>, <<Field("region", "String", "w")>>, 3)

RollbackLines ==
    {line \in Lines : line.timestamp # None}
      \cup {LineCpuWestInt, LineCpuZoneInt, LineCpuRegionField}

\* The table of the line's measurement in the partition, None if it has none.
TableOfLine(partition, line) ==
    IF /\ lookup_value(partition.dictionary, line.measurement) # None
       /\ lookup_value(partition.dictionary, line.measurement)[1] \in DOMAIN partition.tables
    THEN Some(partition.tables[lookup_value(partition.dictionary, line.measurement)[1]])
    ELSE None

RowValues(partition, line) == InternRow(partition.dictionary, LineValues(line), 1, <<>>).values

RolledBack(table, a) == ~a.ok => a.table = table

\* C24: an append_row that fails on a type mismatch returns the error and
\* leaves the table as it was: the same columns with the same values, so
\* the same row count.
FailedRowRolledBack ==
    \A i \in 1..Len(partitions) : \A line \in RollbackLines :
      TableOfLine(partitions[i], line) # None =>
        RolledBack(TableOfLine(partitions[i], line)[1],
                   append_row(TableOfLine(partitions[i], line)[1],
                              RowValues(partitions[i], line)))

\* Whether the row's values reach a mismatch after changing the table.
PartlyAppended(table, r) == ~r.ok /\ r.table # table

\* C24 witness: a table on which a row fails after a value was appended to
\* an existing column, and on which another row fails after it added a column.
FailedRowRolledBackWitness ==
    \E i \in 1..Len(partitions) :
      /\ TableOfLine(partitions[i], LineCpuWestInt) # None
      /\ \A line \in {LineCpuWestInt, LineCpuZoneInt} :
           /\ PartlyAppended(TableOfLine(partitions[i], line)[1],
                             AppendValues(TableOfLine(partitions[i], line)[1],
                                          RowValues(partitions[i], line), 1,
                                          row_count(TableOfLine(partitions[i], line)[1])))
           /\ ~append_row(TableOfLine(partitions[i], line)[1],
                          RowValues(partitions[i], line)).ok
      /\ Len(TableOfLine(partitions[i], LineCpuZoneInt)[1].columns) <
           Len(AppendValues(TableOfLine(partitions[i], LineCpuZoneInt)[1],
                            RowValues(partitions[i], LineCpuZoneInt), 1,
                            row_count(TableOfLine(partitions[i], LineCpuZoneInt)[1])).table.columns)

KindOf(table, id) == table.columns[table.column_id_to_index[id] + 1].kind

\* Whether a value of the row is of another variant than the column the
\* table has under its name.
Mismatches(table, values) ==
    \E k \in 1..Len(values) :
      /\ values[k].id \in DOMAIN table.column_id_to_index
      /\ KindOf(table, values[k].id) # ColumnKind(values[k].kind)

VariantKept(table, values, a) ==
    /\ \A id \in DOMAIN table.column_id_to_index :
         /\ id \in DOMAIN a.table.column_id_to_index
         /\ KindOf(a.table, id) = KindOf(table, id)
    /\ Mismatches(table, values) => ~a.ok
    /\ a.ok => \A k \in 1..Len(values) :
                 KindOf(a.table, values[k].id) = ColumnKind(values[k].kind)

\* C25: appending a row leaves the variant of every column the table has
\* as it is, gives a new column the variant of its first value, and fails
\* (the value is not stored under another variant) when a value's variant
\* differs from that of the column of its name.
VariantFixedAtFirstValue ==
    \A i \in 1..Len(partitions) : \A line \in RollbackLines :
      TableOfLine(partitions[i], line) # None =>
        VariantKept(TableOfLine(partitions[i], line)[1], RowValues(partitions[i], line),
                    append_row(TableOfLine(partitions[i], line)[1],
                               RowValues(partitions[i], line)))

\* C25 witness: a table whose column `user` is F64 and whose column
\* `region` is a tag, for which a row with user as integer and a row with
\* region as a field are rejected and a row with a new tag is accepted.
VariantFixedAtFirstValueWitness ==
    \E i \in 1..Len(partitions) :
      /\ TableOfLine(partitions[i], LineCpuInt) # None
      /\ ColumnNamed(partitions[i], TableOfLine(partitions[i], LineCpuInt)[1], "user") # None
      /\ ColumnNamed(partitions[i], TableOfLine(partitions[i], LineCpuInt)[1], "user")[1].kind = "F64"
      /\ ~append_row(TableOfLine(partitions[i], LineCpuInt)[1],
                     RowValues(partitions[i], LineCpuInt)).ok
      /\ ColumnNamed(partitions[i], TableOfLine(partitions[i], LineCpuInt)[1], "region") # None
      /\ ~append_row(TableOfLine(partitions[i], LineCpuInt)[1],
                     RowValues(partitions[i], LineCpuRegionField)).ok
      /\ lookup_value(partitions[i].dictionary, "host") = None
      /\ append_row(TableOfLine(partitions[i], LineCpuHost)[1],
                    RowValues(partitions[i], LineCpuHost)).ok

\* The strings a dictionary holds, and two that no line brings.
StringsOf(dictionary) == {dictionary[k] : k \in 1..Len(dictionary)}

InternedAgain(dictionary, s, first, again) ==
    /\ again.id = first.id
    /\ again.dictionary = first.dictionary
    /\ first.dictionary[first.id + 1] = s
    /\ s \in StringsOf(dictionary) =>
         /\ first.dictionary = dictionary
         /\ first.id = lookup_value(dictionary, s)[1]

InternTwice(dictionary, s, first) ==
    InternedAgain(dictionary, s, first, intern(first.dictionary, s))

\* C26: interning a string the dictionary holds returns the id it has and
\* leaves the dictionary (its size and every entry) as it is; interning a
\* string twice gives the same id both times.
InternIdempotent ==
    \A i \in 1..Len(partitions) :
      \A s \in StringsOf(partitions[i].dictionary) \cup {"mem", "zone"} :
        InternTwice(partitions[i].dictionary, s, intern(partitions[i].dictionary, s))

\* C26 witness: a partition whose table got a second row, so that the
\* table name and a column name were interned again, with three strings
\* or more in its dictionary.
InternIdempotentWitness ==
    \E i \in 1..Len(partitions) :
      /\ Len(partitions[i].dictionary) >= 3
      /\ \E t \in DOMAIN partitions[i].tables : row_count(partitions[i].tables[t]) >= 2
      /\ intern(partitions[i].dictionary, partitions[i].dictionary[2]).id = 1

\* The dictionary maps its strings one to one onto the ids 0..n-1.
Bijective(dictionary) ==
    /\ \A k \in 1..Len(dictionary) :
         /\ lookup_value(dictionary, dictionary[k]) = Some(k - 1)
         /\ lookup_id(dictionary, k - 1) = Some(dictionary[k])
    /\ lookup_id(dictionary, Len(dictionary)) = None
    /\ Cardinality(StringsOf(dictionary)) = Len(dictionary)

\* Every id of `before` has the same string in `after`.
IdsKept(before, after) ==
    /\ Len(after) >= Len(before)
    /\ \A id \in 0..(Len(before) - 1) : lookup_id(after, id) = lookup_id(before, id)

\* C27: every partition dictionary is a bijection between its strings and
\* the ids 0..n-1, and a step keeps every id with its string: new strings
\* get the next ids, none is removed or given to another string.
DictionaryIdsStable ==
    [][/\ \A i \in 1..Len(partitions') : Bijective(partitions'[i].dictionary)
       /\ \A i \in 1..Len(partitions) :
            IdsKept(partitions[i].dictionary, partitions'[i].dictionary)]_vars

\* C27 witness: a partition written by two calls, the second of which
\* added strings to the four or more the first had interned.
DictionaryIdsStableWitness ==
    /\ hist >= 2
    /\ \E i \in 1..Len(partitions) :
         /\ Len(partitions[i].dictionary) >= 6
         /\ partitions[i].dictionary[1] = "cpu"
         /\ \E t \in DOMAIN partitions[i].tables : row_count(partitions[i].tables[t]) >= 2

\* Every symbol the partition stores is an id of its dictionary.
SymbolsResolve(partition) ==
    \A t \in DOMAIN partition.tables :
      /\ lookup_id(partition.dictionary, t) # None
      /\ partition.tables[t].id = t
      /\ \A c \in DOMAIN partition.tables[t].column_id_to_index :
           /\ lookup_id(partition.dictionary, c) # None
           /\ LET column == partition.tables[t].columns[
                              partition.tables[t].column_id_to_index[c] + 1]
              IN column.kind = "Tag" =>
                   \A r \in 1..Len(column.values) :
                     column.values[r] # None =>
                       lookup_id(partition.dictionary, column.values[r][1]) # None

IdLookupErrors ==
    {"TableIdNotFoundInDictionary", "ColumnIdNotFoundInDictionary",
     "ColumnValueIdNotFoundInDictionary"}

\* C28: every table-name key, column-id key and non-null Tag value of a
\* partition resolves through the partition's dictionary, and table_names,
\* tag_column_names and column_values never fail on a lookup_id.
StoredSymbolsResolve ==
    /\ \A i \in 1..Len(partitions) : SymbolsResolve(partitions[i])
    /\ \A range \in VisitRanges :
         /\ table_names(partitions, range).err \notin IdLookupErrors
         /\ tag_column_names(partitions, None, range).err \notin IdLookupErrors
         /\ \A name \in {"region", "host", "state"} :
              column_values(partitions, name, None, range).err \notin IdLookupErrors

\* C28 witness: a partition with two tables and tag values, on which the
\* three queries resolve ids to strings.
StoredSymbolsResolveWitness ==
    /\ \E i \in 1..Len(partitions) : Cardinality(DOMAIN partitions[i].tables) = 2
    /\ table_names(partitions, None).set = {"cpu", "disk"}
    /\ tag_column_names(partitions, None, None).set # {}
    /\ column_values(partitions, "region", None, None).err = ""
    /\ column_values(partitions, "region", None, None).set # {}

\* Whether the table `name` of the partition with that key holds the row.
RowInMemory(parts, key, name, row) ==
    \E i \in Holders(parts, name) :
      /\ parts[i].key = key
      /\ \E r \in 1..row_count(parts[i].tables[lookup_value(parts[i].dictionary, name)[1]]) :
           RowHeld(parts[i], parts[i].tables[lookup_value(parts[i].dictionary, name)[1]], r)
             = RowWritten(row)

\* Every row of the encoded batch is in memory.
BatchInMemory(parts, data) ==
    \A e \in 1..Len(data) : \A j \in 1..Len(data[e].table_batches) :
      \A x \in 1..Len(data[e].table_batches[j].rows) :
        RowInMemory(parts, data[e].partition_key, data[e].table_batches[j].table,
                    data[e].table_batches[j].rows[x])

\* C29: a write_lines call whose WAL append failed has returned WritingWal,
\* its batch is not in the WAL, and the rows it applied are still in the
\* partitions of the Db (until the Db is replaced by a recovery).
WalFailureKeepsRows ==
    \A w \in Writers :
      (pc[w] = "idle" /\ ack[w] = "err") =>
        /\ result[w] = "WritingWal"
        /\ call[w].id \notin WalCalls
        /\ hist.restore = "none" => BatchInMemory(partitions, call[w].data)

\* C29 witness: a read under way after a call returned WritingWal, with
\* nothing in the WAL and the call's rows in memory.
WalFailureKeepsRowsWitness ==
    /\ Reading
    /\ wal = <<>>
    /\ hist.restore = "none"
    /\ \E w \in Writers :
         /\ result[w] = "WritingWal"
         /\ call[w].rows = 2
         /\ BatchInMemory(partitions, call[w].data)
         /\ TotalRows(partitions) = 2

(***************************************************************************)
(* Recovery of a WAL directory whose frames were written by anyone: frames *)
(* of encoded batches, among them batches that contradict an older frame,  *)
(* and frames whose bytes do not decode.                                    *)
(***************************************************************************)
MaxFrames == 3

\* A frame whose bytes do not decode.
Undecodable == [call |-> 0, data |-> <<>>, undecodable |-> TRUE]

\* The frame write_lines hands to the WAL for the lines.
FrameOf(lines) == [call |-> 0, data |-> split_lines_into_write_entry_partitions(lines)]

RecoverFrames ==
    {FrameOf(<<LineCpuWest>>), FrameOf(<<LineCpuInt>>), FrameOf(<<LineDisk>>),
     FrameOf(<<LineCpuHost, LineCpuLater>>), FrameOf(<<LineDisk, LineCpuInt>>),
     Undecodable}

\* No call of restore_from_wal has returned yet.
NoRestore == [err |-> "", db |-> None]

RecoverInit ==
    /\ partitions = <<>>
    /\ wal = <<>>
    /\ wal_details = FALSE
    /\ lock = [writer |-> "", readers |-> {}]
    /\ pc = [p \in Procs |-> "idle"]
    /\ call = [w \in Writers |-> NoCall]
    /\ chan = <<>>
    /\ ack = [w \in Writers |-> "none"]
    /\ result = NoRestore
    /\ hist = 0

\* A frame is added to the WAL directory before the database is opened.
FrameWritten(frame) ==
    /\ hist = 0
    /\ Len(wal) < MaxFrames
    /\ wal' = Append(wal, frame)
    /\ UNCHANGED <<partitions, wal_details, lock, pc, call, chan, ack, result, hist>>

\* restore_from_wal that returns a Db of the partitions replayed before the
\* failing frame.
RestoreResultPartial(r) ==
    [err |-> IF r.ok THEN "" ELSE "WalRecoverError",
     db |-> Some([partitions |-> r.partitions, wal_details |-> TRUE])]

\* The value restore_from_wal returns for the outcome of the replay: the
\* error of `?`, or the Db built from the replayed partitions.
RestoreResult(r) ==
    IF r.ok
    THEN [err |-> "", db |-> Some([partitions |-> r.partitions, wal_details |-> TRUE])]
    ELSE [err |-> "WalRecoverError", db |-> None]

\* Db::restore_from_wal on the directory.
RecoverFromWal ==
    /\ hist = 0
    /\ result' = RestoreResult(restore_partitions_from_wal(wal))
    /\ hist' = 1
    /\ UNCHANGED <<partitions, wal, wal_details, lock, pc, call, chan, ack>>

RecoverNext ==
    \/ \E frame \in RecoverFrames : FrameWritten(frame)
    \/ RecoverFromWal

RecoverSpec == RecoverInit /\ [][RecoverNext]_vars

\* Whether the frame i of the WAL fails to decode or to apply after the
\* frames before it.
FrameFails(frames, i) ==
    /\ restore_partitions_from_wal(SubSeq(frames, 1, i - 1)).ok
    /\ ~restore_partitions_from_wal(SubSeq(frames, 1, i)).ok

\* C30: when a frame of the WAL fails to decode or to apply, restore_from_wal
\* returns WalRecoverError and no Db; otherwise it returns a Db.
FailedReplayReturnsNoDb ==
    hist = 1 =>
      IF \E i \in 1..Len(wal) : FrameFails(wal, i)
      THEN result.err = "WalRecoverError" /\ result.db = None
      ELSE result.err = "" /\ result.db # None

\* C30 witness: the restore has returned WalRecoverError for a WAL whose
\* second frame contradicts the first, which had been replayed.
FailedReplayReturnsNoDbWitness ==
    /\ hist = 1
    /\ Len(wal) = 2
    /\ Decodes(wal[2])
    /\ FrameFails(wal, 2)
    /\ restore_partitions_from_wal(wal).partitions # <<>>
    /\ result.err = "WalRecoverError"
    /\ result.db = None

\* An undecodable frame after a frame that was replayed ends the restore
\* with WalRecoverError.
UndecodableFrameWitness ==
    /\ hist = 1
    /\ Len(wal) = 2
    /\ ~Decodes(wal[2])
    /\ FrameFails(wal, 2)
    /\ result = [err |-> "WalRecoverError", db |-> None]

\* C32 (as claimed): the partitions that restore_from_wal replays from the
\* frames of a run of write_lines calls are the partitions the original Db
\* held (dictionaries, columns, nulls, partition order).
ReplayIsMemory ==
    [][RestoreFromWal => partitions' = partitions]_vars

\* C32: when every write_lines call of the run returned Ok, the replayed
\* partitions are the partitions the original Db held, with the same ids in
\* every dictionary, the same columns and nulls and the same partition
\* order; and the restored Db is in any case the replay of the WAL it left
\* in place, so that a second replay gives the same partitions again.
ReplayIsMemoryOfOkWrites ==
    [][RestoreFromWal =>
         /\ wal' = wal
         /\ partitions' = restore_partitions_from_wal(wal').partitions
         /\ hist.all_ok => partitions' = partitions]_vars

\* C32 witness: a Db restored from two frames after two Ok calls, with two
\* partitions, a dictionary of more than three strings and a null.
ReplayIsMemoryOfOkWritesWitness ==
    /\ hist.restore = "Ok"
    /\ hist.all_ok
    /\ Len(wal) = 2
    /\ Len(partitions) = 2
    /\ partitions = restore_partitions_from_wal(wal).partitions
    /\ \E i \in 1..2 :
         /\ Len(partitions[i].dictionary) > 3
         /\ \E t \in DOMAIN partitions[i].tables :
              \E c \in 1..Len(partitions[i].tables[t].columns) :
                \E r \in 1..Len(partitions[i].tables[t].columns[c].values) :
                  partitions[i].tables[t].columns[c].values[r] = None

\* The rows of a table, first to last, each as the set RowHeld gives.
TableRows(partition, table) ==
    [r \in 1..row_count(table) |-> RowHeld(partition, table, r)]

\* The rows held for table `name` in the partition of that key, in order.
HeldRows(parts, key, name) ==
    IF \E i \in Holders(parts, name) : parts[i].key = key
    THEN TableRows(parts[CHOOSE i \in Holders(parts, name) : parts[i].key = key],
                   parts[CHOOSE i \in Holders(parts, name) : parts[i].key = key]
                     .tables[lookup_value(
                        parts[CHOOSE i \in Holders(parts, name) : parts[i].key = key].dictionary,
                        name)[1]])
    ELSE <<>>

\* The lines of the call that go to table `name` of the partition of that
\* key, in input order, each as the set of its values.
LineRows(lines, key, name) ==
    Flatten([i \in 1..Len(lines) |->
               IF partition_key(lines[i]) = key /\ lines[i].measurement = name
               THEN <<RowWritten(LineValues(lines[i]))>> ELSE <<>>])

BatchKeys(lines) == {partition_key(lines[i]) : i \in 1..Len(lines)}

\* What a successful call with these lines did to the partition lists.
RowsAddedInOrder(before, after, lines) ==
    /\ TotalRows(after) = TotalRows(before) + Len(lines)
    /\ \A name \in WrittenNames :
         \A key \in BatchKeys(lines) \cup {before[i].key : i \in 1..Len(before)} :
           HeldRows(after, key, name)
             = HeldRows(before, key, name) \o LineRows(lines, key, name)

RECURSIVE HoldingFrom(_, _, _)
HoldingFrom(parts, name, i) ==
    IF i > Len(parts) THEN <<>>
    ELSE (IF i \in Holders(parts, name) THEN <<parts[i]>> ELSE <<>>)
           \o HoldingFrom(parts, name, i + 1)

Holding(parts, name) == HoldingFrom(parts, name, 1)

\* The tables given to pre_visit_table, as <<partition key, table id>>.
PreVisited(calls) ==
    {<<calls[k].partition, calls[k].table[1]>> :
       k \in {x \in 1..Len(calls) : calls[x].hook = "pre_visit_table"}}

\* The tables of that name that pass the timestamp filter, in all partitions.
NamedInRange(parts, name, range) ==
    {<<parts[i].key, lookup_value(parts[i].dictionary, name)[1]>> :
       i \in {x \in Holders(parts, name) :
                PassesFilters(parts[x], lookup_value(parts[x].dictionary, name)[1],
                              Some(name), range)}}

\* C34 (as claimed): with a table name given, pre_visit_table is called for
\* the tables of that name that pass the timestamp filter, in every partition,
\* and for no other table; a partition that holds no table of that name
\* contributes nothing to what tag_column_names and column_values return.
AbsentTableContributesNothing ==
    \A name \in WrittenNames : \A range \in VisitRanges :
      Holders(partitions, name) # {} =>
        /\ PreVisited(visit_tables(partitions, Some(name), range, NameVisitor).visitor.calls)
             = NamedInRange(partitions, name, range)
        /\ tag_column_names(partitions, Some(name), range)
             = tag_column_names(Holding(partitions, name), Some(name), range)
        /\ \A column_name \in {"region", "host"} :
             column_values(partitions, column_name, Some(name), range)
               = column_values(Holding(partitions, name), column_name, Some(name), range)

\* The states the Db has been in: the new Db and the partition lists left
\* by the write_lines calls, which the writer lock orders.
DbStates == {<<>>} \cup {hist[k] : k \in 1..Len(hist)}

\* C35 (as claimed): the tables that a query loaded for one FROM clause are
\* the tables of one state of the Db, the state after some prefix of the
\* writes, whatever write_lines calls ran while the query did.
FromTablesOfOneState ==
    \A r \in Readers : \A s \in 1..Len(call[r].ast) :
      \E parts \in DbStates :
        \A t \in 1..Len(call[r].tables) :
          call[r].tables[t].statement = s =>
            call[r].tables[t].data
              = table_to_arrow(parts, call[r].tables[t].name, <<>>).batches

EntryBatches ==
    { <<LineCpuWest>>,
      <<LineCpuWest, LineCpuInt>>,
      <<LineCpuInt, LineCpuLater>>,
      <<LineCpuLater, LineCpuInt>>,
      <<LineDisk, LineDiskLater>> }

EntryNext ==
    \/ \E w \in Writers, lines \in EntryBatches : WriteLinesLock(w, lines)
    \/ \E w \in Writers : WriteLinesEntry(w)
    \/ \E w \in Writers : WriteLinesWal(w)
    \/ WalSyncOk
    \/ WalSyncFail
    \/ \E w \in Writers : WriteLinesReturn(w)

EntrySpec == Init /\ [][EntryNext]_vars

\* Whether every table of the partition still begins with the rows that
\* `before` held.
RowsKept(before, after) ==
    \A t \in DOMAIN before.tables :
      /\ t \in DOMAIN after.tables
      /\ \A r \in 1..row_count(before.tables[t]) :
           RowHeld(after, after.tables[t], r) = RowHeld(before, before.tables[t], r)

\* What the failing iteration of writer w's entry loop did.
FailedEntryStep(w) ==
    /\ pc'[w] = "idle"
    /\ lock'.writer = ""
    /\ wal' = wal /\ chan' = chan
    /\ call'[w].id \notin {wal'[i].call : i \in 1..Len(wal')}
    /\ Len(partitions') = Len(partitions)
    /\ \A i \in 1..Len(partitions) :
         IF i = FindPartition(partitions, call[w].data[call[w].idx].partition_key)
         THEN RowsKept(partitions[i], partitions'[i])
         ELSE partitions'[i] = partitions[i]

\* C37: when an entry fails to apply, write_lines returns PartitionError at
\* that iteration: nothing goes to the WAL, the partition being created for
\* the entry is not added, the partitions of the entries applied before are
\* as they were, and the call changes the partitions no more, so that no
\* later entry is applied.
FailedEntryEndsCall ==
    [][\A w \in Writers :
         /\ (WriteLinesEntry(w) /\ result'[w] = "PartitionError") => FailedEntryStep(w)
         /\ (pc[w] = "idle" /\ result[w] = "PartitionError" /\ partitions' # partitions)
              => \E v \in Writers \ {w} : pc[v] = "apply" /\ WriteLinesEntry(v)]_vars

\* C37 witness: the call wrote its first entry to a new partition of the
\* later hour, failed on its second entry and returned PartitionError; the
\* row of the first entry is in memory and the WAL does not hold the call.
FailedEntryEndsCallWitness ==
    \E w \in Writers :
      /\ pc[w] = "idle"
      /\ result[w] = "PartitionError"
      /\ Len(call[w].data) = 2
      /\ call[w].rows = 1
      /\ call[w].id \notin WalCalls
      /\ Len(partitions) = 2
      /\ partitions[2].key = partition_key(LineCpuLater)
      /\ BatchInMemory(partitions, <<call[w].data[1]>>)

\* A failing first entry leaves the later entry of the batch unapplied: the
\* partition of the later hour is not created.
LaterEntryNotAppliedWitness ==
    \E w \in Writers :
      /\ pc[w] = "idle"
      /\ result[w] = "PartitionError"
      /\ Len(call[w].data) = 2
      /\ call[w].idx = 2
      /\ call[w].rows = 0
      /\ Len(partitions) = 1
      /\ TotalRows(partitions) = 1

(***************************************************************************)
(* Progress: callers that wait for the lock (pc "lock"), a fair lock, and  *)
(* a WAL sync task that answers.                                            *)
(***************************************************************************)

\* write_lines is called: the caller waits at self.partitions.write().await.
WriteLinesCalled(w) ==
    /\ pc[w] = "idle"
    /\ hist.writes + Cardinality({v \in Writers : pc[v] = "lock"}) < MaxWrites
    /\ pc' = [pc EXCEPT ![w] = "lock"]
    /\ UNCHANGED <<partitions, wal, wal_details, lock, call, chan, ack, result, hist>>

\* A read operation is called: the caller waits at self.partitions.read().await.
ReadCalled(r) ==
    /\ pc[r] = "idle"
    /\ pc' = [pc EXCEPT ![r] = "lock"]
    /\ UNCHANGED <<partitions, wal, wal_details, lock, call, chan, ack, result, hist>>

WriteLockGranted(w) == pc[w] = "lock" /\ \E lines \in EntryBatches : WriteLinesLock(w, lines)

ReadLockGranted(r) == pc[r] = "lock" /\ ReadLock(r)

\* The step of WriteLinesEntry as the caller's locals show it: the entry
\* loop of w goes on to its next entry, with the rows it has added so far.
EntryLoopStep(w) ==
    /\ pc[w] = "apply"
    /\ call[w].idx <= Len(call[w].data)
    /\ \E rows \in call[w].rows..call[w].lines :
         call' = [call EXCEPT ![w].idx = @ + 1, ![w].rows = rows]

LiveNext ==
    \/ \E w \in Writers : WriteLinesCalled(w)
    \/ \E r \in Readers : ReadCalled(r)
    \/ \E w \in Writers : WriteLockGranted(w)
    \/ \E w \in Writers : WriteLinesEntry(w)
    \/ \E w \in Writers : WriteLinesWal(w)
    \/ WalSyncOk
    \/ WalSyncFail
    \/ \E w \in Writers : WriteLinesReturn(w)
    \/ \E r \in Readers : ReadLockGranted(r)
    \/ \E r \in Readers : ReadUnlock(r)

\* The lock is fair (a waiting caller that can be granted the lock again
\* and again is granted it), a caller that holds the lock runs on, and the
\* WAL sync task answers every request.
LiveFairness ==
    /\ \A w \in Writers : SF_vars(WriteLockGranted(w))
    /\ \A r \in Readers : SF_vars(ReadLockGranted(r))
    /\ \A w \in Writers : WF_call(EntryLoopStep(w))
    /\ \A w \in Writers : WF_vars(WriteLinesWal(w))
    /\ \A w \in Writers : WF_vars(WriteLinesReturn(w))
    /\ \A r \in Readers : WF_vars(ReadUnlock(r))
    /\ WF_vars(WalSyncOk \/ WalSyncFail)

LiveSpec == Init /\ [][LiveNext]_vars /\ LiveFairness

\* C38: under a fair lock and a WAL sync task that answers, every
\* write_lines call and every read operation that was called returns.
EveryCallReturns ==
    \A p \in Procs : (pc[p] # "idle") ~> (pc[p] = "idle")

\* C38 witness: a writer holds the lock and waits for the WAL sync task
\* while the other writer and the reader wait for the lock.
EveryCallReturnsWitness ==
    /\ pc["w1"] = "wal"
    /\ lock.writer = "w1"
    /\ chan # <<>>
    /\ pc["w2"] = "lock"
    /\ pc["r1"] = "lock"

\* Whether the table has an I64 column `time` with a value in every row and
\* every column of the table has as many values as it.
TimeLinesUp(partition, table, time) ==
    /\ time # None
    /\ time[1].kind = "I64"
    /\ \A r \in 1..Len(time[1].values) : time[1].values[r] # None
    /\ \A c \in 1..Len(table.columns) :
         Len(table.columns[c].values) = Len(time[1].values)

\* C39: in every reachable state every table has a `time`
\* column of type I64 with a non-null value in every row, row for row with
\* the other columns of the table.
TimeColumnComplete ==
    \A i \in 1..Len(partitions) : \A t \in DOMAIN partitions[i].tables :
      TimeLinesUp(partitions[i], partitions[i].tables[t],
                  ColumnNamed(partitions[i], partitions[i].tables[t], "time"))


\* ---------------------------------------------------------------------
\* AndExprBuilder (query/src/util.rs): the conjunction of the expressions
\* appended to a builder.

MaxAppends == 4

\* The expressions handed to the builder: three distinct column references.
ExprAtoms ==
    { [kind |-> "Column", name |-> n] : n \in {"host", "region", "time"} }

ExprOptions == {None} \cup {Some(e) : e \in ExprAtoms}

\* datafusion's binary_expr(l, op, r): Expr::BinaryExpr with the operands
\* in the order given.
binary_expr(l, op, r) ==
    [kind |-> "BinaryExpr", left |-> l, op |-> op, right |-> r]

append_exprSwapped(self, new_expr) ==
    [cur_expr |->
        Some(IF self.cur_expr # None
               THEN binary_expr(new_expr, "And", self.cur_expr[1])
               ELSE new_expr)]

\* AndExprBuilder::append_expr
append_expr(self, new_expr) ==
    [cur_expr |->
        Some(IF self.cur_expr # None
               THEN binary_expr(self.cur_expr[1], "And", new_expr)
               ELSE new_expr)]

\* AndExprBuilder::append_opt_ref
append_opt_ref(self, new_expr) ==
    IF new_expr = None THEN self ELSE append_expr(self, new_expr[1])

\* AndExprBuilder::append_opt
append_opt(self, new_expr) ==
    IF new_expr = None THEN self ELSE append_expr(self, new_expr[1])

\* AndExprBuilder::build
build(self) == self.cur_expr

\* AndExprBuilder::default()
DefaultBuilder == [cur_expr |-> None]

NotBuilt == [built |-> FALSE, expr |-> None]

\* call is the builder, hist the calls made on it (function and argument),
\* result what build returned.
ExprInit ==
    /\ partitions = <<>>
    /\ wal = <<>>
    /\ wal_details = FALSE
    /\ lock = [writer |-> "", readers |-> {}]
    /\ pc = [p \in Procs |-> "idle"]
    /\ call = DefaultBuilder
    /\ chan = <<>>
    /\ ack = [w \in Writers |-> "none"]
    /\ result = NotBuilt
    /\ hist = <<>>

Appending(fn, arg) ==
    /\ ~result.built
    /\ Len(hist) < MaxAppends
    /\ hist' = Append(hist, [fn |-> fn, arg |-> arg])
    /\ UNCHANGED <<partitions, wal, wal_details, lock, pc, chan, ack, result>>

AppendOptRef(new_expr) ==
    /\ Appending("append_opt_ref", new_expr)
    /\ call' = append_opt_ref(call, new_expr)

AppendOpt(new_expr) ==
    /\ Appending("append_opt", new_expr)
    /\ call' = append_opt(call, new_expr)

AppendExpr(new_expr) ==
    /\ Appending("append_expr", Some(new_expr))
    /\ call' = append_expr(call, new_expr)

\* build consumes the builder.
Build ==
    /\ ~result.built
    /\ result' = [built |-> TRUE, expr |-> build(call)]
    /\ UNCHANGED <<partitions, wal, wal_details, lock, pc, call, chan, ack,
                   hist>>

ExprNext ==
    \/ \E o \in ExprOptions : AppendOptRef(o)
    \/ \E o \in ExprOptions : AppendOpt(o)
    \/ \E e \in ExprAtoms : AppendExpr(e)
    \/ Build

ExprSpec == ExprInit /\ [][ExprNext]_vars

\* The expressions among the arguments of the calls, in call order.
RECURSIVE AppendedExprs(_)
AppendedExprs(calls) ==
    IF calls = <<>> THEN <<>>
    ELSE LET front == AppendedExprs(SubSeq(calls, 1, Len(calls) - 1))
             last == calls[Len(calls)].arg
         IN IF last = None THEN front ELSE Append(front, last[1])

\* ((e1 AND e2) AND e3) ... of a non-empty sequence of expressions.
RECURSIVE LeftNestedAnd(_)
LeftNestedAnd(es) ==
    IF Len(es) = 1 THEN es[1]
    ELSE [kind |-> "BinaryExpr",
          left |-> LeftNestedAnd(SubSeq(es, 1, Len(es) - 1)),
          op |-> "And",
          right |-> es[Len(es)]]

Conjunction(es) == IF es = <<>> THEN None ELSE Some(LeftNestedAnd(es))

NoneAppended ==
    /\ hist' # hist
    /\ hist'[Len(hist')].fn \in {"append_opt", "append_opt_ref"}
    /\ hist'[Len(hist')].arg = None

\* C40: build returns None when no expression was appended, the expression
\* itself when exactly one was, and otherwise the left-nested AND of the
\* appended expressions in append order; append_opt(None) and
\* append_opt_ref(None) leave the builder unchanged.
BuildIsLeftNestedAnd ==
    /\ [](/\ build(call) = Conjunction(AppendedExprs(hist))
          /\ result.built => result.expr = Conjunction(AppendedExprs(hist)))
    /\ [][NoneAppended => call' = call]_vars

\* build has returned (host AND region) AND time after four calls, one of
\* them with None between two expressions.
BuildIsLeftNestedAndWitness ==
    /\ result.built
    /\ Len(hist) = 4
    /\ hist[2].arg = None
    /\ AppendedExprs(hist) =
         << [kind |-> "Column", name |-> "host"],
            [kind |-> "Column", name |-> "region"],
            [kind |-> "Column", name |-> "time"] >>
    /\ result.expr =
         Some(binary_expr(
                binary_expr([kind |-> "Column", name |-> "host"], "And",
                            [kind |-> "Column", name |-> "region"]),
                "And", [kind |-> "Column", name |-> "time"]))

====
